---- MODULE Spec2Model ----
(***************************************************************************)
(* The metric store (MySQL table daily_metrics) and the two scripts that   *)
(* write it: dashboard/add-today-data.js ("today") and                     *)
(* dashboard/sample-data.js ("sample").                                    *)
(*                                                                         *)
(* Amounts are integers in hundredths, the scale of DECIMAL(15,2): the     *)
(* count 7 is stored as 700, 61.5 % as 6150, $6800 as 680000.              *)
(* Math.random() returns k / RandSteps for some k in 0 .. RandSteps-1.     *)
(* repFactor is kept in tenths (12, 10, 8) and dateFactor in hundredths.   *)
(***************************************************************************)
EXTENDS Integers, Sequences, FiniteSets, Bags, TLC

\* ------------------------------------------------------------- bounds
\* Script invocations the model follows (they may overlap in time).
MaxRuns == 2
\* How many entries of the representatives list a run iterates over.
NumReps == 1
\* Days before today that sample-data.js covers (the script itself uses 30).
HistoryDays == 0
\* Resolution of Math.random(): the draws are 0/RandSteps .. (RandSteps-1)/RandSteps.
RandSteps == 2
\* Database calls (connect, execute, end) that may fail, over all runs.
MaxFaults == 1
\* Entries of the representatives list a run iterates over when the dashboard
\* is followed as well (team totals need more than one representative).
DashReps == 2
\* Records one source fetch may return.
MaxRecords == 2
\* Times a rate-limited fetch is issued again before its timeout expires.
MaxRetries == 1
\* Rows one spreadsheet fetch may hold for a bucket; also the source_ids in use.
MaxDealRows == 4
\* Clicks on the theme toggle the model follows per page load.
MaxClicks == 2
\* How many days from today the date navigation is followed.
MaxDaysAway == 2

\* ---------------------------------------------------- program constants
\* moment().format('YYYY-MM-DD'): dates are day numbers relative to today.
Today == 0
\* moment().subtract(30, "days") inside generateDataForRepresentative.
WindowDays == 30

AllRepresentatives == <<"sierra", "mikaela", "mike">>

\* How many entries of a list of three a bound lets the model follow.
RosterSize(bound) == IF bound < 3 THEN bound ELSE 3

calculatedMetrics ==
  << [name |-> "appointments_booked",    type |-> "count"],
     [name |-> "appointments_canceled",  type |-> "count"],
     [name |-> "appointments_conducted", type |-> "count"],
     [name |-> "average_deal_size",      type |-> "currency"],
     [name |-> "close_rate",             type |-> "percentage"],
     [name |-> "show_rate",              type |-> "percentage"] >>

metricNames ==
  << [name |-> "new_clients_closed",       type |-> "count"],
     [name |-> "organic_clients_closed",   type |-> "count"],
     [name |-> "total_new_clients_closed", type |-> "count"],
     [name |-> "new_client_revenue",       type |-> "currency"],
     [name |-> "rebuy_revenue",            type |-> "currency"],
     [name |-> "total_revenue",            type |-> "currency"] >>

Scripts == {"today", "sample"}

ScriptMetrics(script) == IF script = "today" THEN calculatedMetrics ELSE metricNames

MetricPrefix(script) == IF script = "today" THEN "calculated_" ELSE "master_"

ScriptSource(script) == IF script = "today" THEN "today-data-script" ELSE "sample-data"

\* The dates one run of a script writes, in loop order.
ScriptDates(script) ==
  IF script = "today" THEN <<Today>>
  ELSE [i \in 1..(HistoryDays + 1) |-> Today - HistoryDays + (i - 1)]

\* -------------------------------------------------------- value generation
RandomDraws == 0..(RandSteps - 1)

\* Math.round(num / den) for num >= 0, den > 0: floor(x + 0.5).
MathRound(num, den) == (2 * num + den) \div (2 * den)

Min(a, b) == IF a < b THEN a ELSE b

Max(a, b) == IF a > b THEN a ELSE b

\* repFactor, in tenths.
RepFactor(representative) ==
  IF representative = "sierra" THEN 12
  ELSE IF representative = "mikaela" THEN 10 ELSE 8

\* moment(date).diff(moment().subtract(30, "days"), "days"): date is midnight
\* of its day and the reference carries the time of day, so the difference
\* truncates to one day less than the calendar distance (0 at the far end).
DaysSinceStart(date) ==
  IF date - (Today - WindowDays) <= 0 THEN 0 ELSE date - (Today - WindowDays) - 1

\* dateFactor = 1 + daysSinceStart * 0.01, in hundredths.
DateFactor(date) == 100 + DaysSinceStart(date)

\* Math.round(base * repFactor + Math.random() * spread) of add-today-data.js.
TodayCount(base, spread, representative, k) ==
  MathRound(base * RepFactor(representative) * RandSteps + 10 * spread * k,
            10 * RandSteps)

\* value.toFixed(2) of a whole number, in hundredths.
ToFixed2(whole) == 100 * whole

\* The percentage branch without its cap, in hundredths:
\* base + 20|15 * repFactor + Math.random() * 15.
RawPercentage(base, slope, representative, k) ==
  MathRound(100 * (10 * base * RandSteps
                   + slope * RepFactor(representative) * RandSteps
                   + 150 * k),
            10 * RandSteps)

\* The capped percentage multiplied by 100 once more, as if the generated
\* value were a fraction of 1.
PercentageScaledTwice(base, slope, representative, k) ==
  100 * Min(10000, RawPercentage(base, slope, representative, k))

\* value = Math.min(100, value), in hundredths.
Percentage(base, slope, representative, k) ==
  Min(10000, RawPercentage(base, slope, representative, k))

\* Math.round(value / 100) * 100 of a dollar amount num / den, in hundredths.
RoundTo100(num, den) == ToFixed2(MathRound(num, 100 * den) * 100)

\* The value add-today-data.js generates for one metric, in hundredths;
\* k1, k2 are the Math.random() draws the branch makes, in order.
TodayValue(metric, representative, k1, k2) ==
  IF metric.type = "count" THEN
    IF metric.name = "appointments_booked"
      THEN ToFixed2(TodayCount(5, 5, representative, k1))
    ELSE IF metric.name = "appointments_canceled"
      THEN ToFixed2(TodayCount(1, 2, representative, k1))
    ELSE IF metric.name = "appointments_conducted"
      THEN ToFixed2(Max(0, TodayCount(5, 5, representative, k1)
                           - TodayCount(1, 2, representative, k2)))
    ELSE ToFixed2(TodayCount(8, 4, representative, k1))
  ELSE IF metric.type = "percentage" THEN
    IF metric.name = "close_rate" THEN Percentage(45, 20, representative, k1)
    ELSE IF metric.name = "show_rate" THEN Percentage(65, 15, representative, k1)
    ELSE Min(10000, MathRound(100 * (70 * RandSteps + 20 * k1), RandSteps))
  ELSE IF metric.type = "currency" THEN
    RoundTo100(10 * 2000 * RandSteps
               + 4000 * RepFactor(representative) * RandSteps
               + 10 * 2000 * k1,
               10 * RandSteps)
  ELSE ToFixed2(MathRound(10 * RepFactor(representative), 10))

\* Math.round(base * repFactor * dateFactor + Math.random() * spread)
\* of sample-data.js.
SampleCount(base, spread, representative, date, k) ==
  MathRound(base * RepFactor(representative) * DateFactor(date) * RandSteps
            + 1000 * spread * k,
            1000 * RandSteps)

\* base + scale * repFactor * dateFactor + Math.random() * spread, as the
\* numerator of a fraction over 1000 * RandSteps.
SampleAmount(base, scale, spread, representative, date, k) ==
  1000 * base * RandSteps
  + scale * RepFactor(representative) * DateFactor(date) * RandSteps
  + 1000 * spread * k

\* The value sample-data.js generates for one metric, in hundredths.
SampleValue(metric, representative, date, k1, k2) ==
  IF metric.type = "count" THEN
    IF metric.name = "new_clients_closed"
      THEN ToFixed2(SampleCount(3, 4, representative, date, k1))
    ELSE IF metric.name = "organic_clients_closed"
      THEN ToFixed2(SampleCount(2, 3, representative, date, k1))
    ELSE IF metric.name = "total_new_clients_closed"
      THEN ToFixed2(SampleCount(3, 4, representative, date, k1)
                    + SampleCount(2, 3, representative, date, k2))
    ELSE ToFixed2(SampleCount(8, 5, representative, date, k1))
  ELSE IF metric.type = "currency" THEN
    IF metric.name = "new_client_revenue"
      THEN RoundTo100(SampleAmount(5000, 8000, 2000, representative, date, k1),
                      1000 * RandSteps)
    ELSE IF metric.name = "rebuy_revenue"
      THEN RoundTo100(SampleAmount(3000, 5000, 2000, representative, date, k1),
                      1000 * RandSteps)
    ELSE IF metric.name = "total_revenue"
      THEN RoundTo100(SampleAmount(5000, 8000, 2000, representative, date, k1)
                      + SampleAmount(3000, 5000, 2000, representative, date, k2),
                      1000 * RandSteps)
    ELSE RoundTo100(SampleAmount(2000, 3000, 1000, representative, date, k1),
                    1000 * RandSteps)
  ELSE ToFixed2(MathRound(RepFactor(representative) * DateFactor(date), 1000))

GenerateValue(script, metric, representative, date, k1, k2) ==
  IF script = "today" THEN TodayValue(metric, representative, k1, k2)
  ELSE SampleValue(metric, representative, date, k1, k2)

\* ------------------------------------------------------------------ state
RunIds == 1..MaxRuns

VARIABLES
  daily_metrics,  \* the table: a bag of rows
  runs,           \* per script invocation: its position and local variables
  faults,         \* database calls that have failed so far
  roster,         \* how many entries of the representatives list are followed
  request,        \* the dashboard's GET / handler: its position and locals
  sources,        \* the pipeline's three source fetches
  job,            \* the pipeline run that joins the fetches
  reconciliation, \* one (date, representative) bucket in reconciliation
  verification,   \* a run of verify-metrics.js: its position and locals
  view,           \* the GET / handler's per-representative and chart queries
  page,           \* the dashboard page in the browser
  chartManager    \* the page's DashboardChartManager and its timers

vars ==
  <<daily_metrics, runs, faults, roster, request, sources, job, reconciliation,
    verification, view, page, chartManager>>

\* The browser's side of the dashboard.
browserVars == <<page, chartManager>>

\* The reporting pipeline's own state.
pipelineVars == <<sources, job, reconciliation>>

\* What the two scripts never touch.
outsideScripts == <<roster, request, pipelineVars, verification, view, browserVars>>

\* What the reporting pipeline's fetch and reconciliation never touch.
outsidePipeline ==
  <<daily_metrics, runs, faults, roster, request, verification, view, browserVars>>

\* What the GET / handler's totals query never touches.
outsideRequest == <<roster, pipelineVars, verification, view, browserVars>>

\* const representatives = ["sierra", "mikaela", "mike"], as far as followed.
Representatives == SubSeq(AllRepresentatives, 1, roster)

\* The UNIQUE KEY unique_metric (metric_date, representative, metric_name).
KeyOf(row) ==
  [metric_date |-> row.metric_date, representative |-> row.representative,
   metric_name |-> row.metric_name]

Key(date, representative, metricName) ==
  [metric_date |-> date, representative |-> representative,
   metric_name |-> metricName]

Rows == BagToSet(daily_metrics)

RowsOf(table, key) == {row \in BagToSet(table) : KeyOf(row) = key}

\* A statement that always inserts: INSERT without ON DUPLICATE KEY UPDATE
\* into a table without the unique key.
InsertAlways(table, key, value, type, source, run) ==
  table (+) SetToBag({[metric_date |-> key.metric_date,
                       representative |-> key.representative,
                       metric_name |-> key.metric_name,
                       metric_value |-> value, metric_type |-> type,
                       source |-> source, run |-> run]})

\* ON DUPLICATE KEY UPDATE metric_value = metric_value + VALUES(metric_value).
UpsertAccumulating(table, key, value, type, source, run) ==
  IF RowsOf(table, key) = {}
    THEN InsertAlways(table, key, value, type, source, run)
    ELSE LET old == CHOOSE row \in RowsOf(table, key) : TRUE
         IN (table (-) SetToBag({old}))
            (+) SetToBag({[old EXCEPT !.metric_value = old.metric_value + value,
                                      !.run = run]})

\* A write that deletes the key's row and inserts the new one as a second
\* statement: what the table holds between the two statements.
DeleteBeforeInsert(table, key, value, type, source, run) ==
  IF RowsOf(table, key) = {}
    THEN InsertAlways(table, key, value, type, source, run)
    ELSE [row \in {x \in BagToSet(table) : KeyOf(x) # key} |-> CopiesIn(row, table)]

\* INSERT INTO daily_metrics (...) VALUES (...) ON DUPLICATE KEY UPDATE
\* metric_value = VALUES(metric_value), updated_at = CURRENT_TIMESTAMP:
\* a new row when the key is free, else only metric_value (and updated_at,
\* kept here as the run that wrote last) of the existing row change.
Upsert(table, key, value, type, source, run) ==
  IF RowsOf(table, key) = {}
    THEN table (+) SetToBag({[metric_date |-> key.metric_date,
                              representative |-> key.representative,
                              metric_name |-> key.metric_name,
                              metric_value |-> value, metric_type |-> type,
                              source |-> source, run |-> run]})
    ELSE LET old == CHOOSE row \in RowsOf(table, key) : TRUE
         IN (table (-) SetToBag({old}))
            (+) SetToBag({[old EXCEPT !.metric_value = value, !.run = run]})

\* let connection; and the state before the script is invoked.
IdleRun ==
  [script |-> "none", pc |-> "idle", conn |-> "none", d |-> 1, i |-> 1, j |-> 1,
   failed |-> {}, exit |-> -1]

\* The three external sources of the pipeline.
Sources == {"scheduler", "conferencing", "spreadsheet"}

\* No fetch has been issued.
IdleSources ==
  [s \in Sources |-> [status |-> "idle", records |-> 0, retries |-> 0]]

\* The pipeline run before its join.
IdleJob ==
  [pc |-> "fetching", inputs |-> [s \in Sources |-> 0], computed |-> FALSE,
   warnings |-> {}, exit |-> -1]

\* No bucket is being reconciled.
IdleReconciliation == [pc |-> "start"]

\* No request has reached the dashboard.
IdleRequest ==
  [pc |-> "idle", conn |-> "none", selectedDate |-> Today, totalMetrics |-> {},
   status |-> 0]

\* verify-metrics.js has not been invoked.
IdleVerification ==
  [pc |-> "idle", cleanup |-> FALSE, conn |-> "none", countToDelete |-> 0,
   exit |-> -1]

\* No request is in its per-representative and chart queries.
IdleView == [pc |-> "idle", conn |-> "none", selectedDate |-> Today, status |-> 0]

\* No page is open in the browser.
IdlePage == [pc |-> "closed"]

\* let chartManager; before (or without) new DashboardChartManager().
IdleChartManager == [pc |-> "none"]

Init ==
  /\ daily_metrics = EmptyBag
  /\ runs = [r \in RunIds |-> IdleRun]
  /\ faults = 0
  /\ roster = RosterSize(NumReps)
  /\ request = IdleRequest
  /\ sources = IdleSources
  /\ job = IdleJob
  /\ reconciliation = IdleReconciliation
  /\ verification = IdleVerification
  /\ view = IdleView
  /\ page = IdlePage
  /\ chartManager = IdleChartManager

\* The key the run's next INSERT addresses.
CurrentKey(run) ==
  Key(ScriptDates(run.script)[run.d], Representatives[run.i],
      MetricPrefix(run.script) \o ScriptMetrics(run.script)[run.j].name)

\* The loop position after one metric: next metric, else next representative,
\* else next date, else the loops are over and the finally block runs.
Advance(run) ==
  IF run.j < Len(ScriptMetrics(run.script)) THEN [run EXCEPT !.j = run.j + 1]
  ELSE IF run.i < Len(Representatives) THEN [run EXCEPT !.j = 1, !.i = run.i + 1]
  ELSE IF run.d < Len(ScriptDates(run.script))
    THEN [run EXCEPT !.j = 1, !.i = 1, !.d = run.d + 1]
  ELSE [run EXCEPT !.pc = "finally"]

\* Runs are numbered in the order they are invoked.
MayStart(r) ==
  /\ runs[r].pc = "idle"
  /\ IF r = 1 THEN TRUE ELSE runs[r - 1].pc # "idle"

Exited == {r \in RunIds : runs[r].pc = "exited"}

\* node <script>.js: mysql.createConnection(dbConfig) succeeds.
Connect(r, script) ==
  /\ MayStart(r)
  /\ runs' = [runs EXCEPT ![r] =
       [IdleRun EXCEPT !.script = script, !.conn = "open",
                       !.pc = IF script = "sample" THEN "ensure" ELSE "loop"]]
  /\ UNCHANGED <<daily_metrics, faults, outsideScripts>>

\* createConnection throws: the catch logs, finally finds no connection,
\* the promise resolves and .then(() => process.exit(0)) runs.
ConnectFails(r, script) ==
  /\ MayStart(r)
  /\ faults < MaxFaults
  /\ faults' = faults + 1
  /\ runs' = [runs EXCEPT ![r] =
       [IdleRun EXCEPT !.script = script, !.pc = "exited", !.exit = 0]]
  /\ UNCHANGED <<daily_metrics, outsideScripts>>

\* CREATE TABLE IF NOT EXISTS daily_metrics: the table exists, nothing changes.
EnsureTableExists(r) ==
  /\ runs[r].pc = "ensure"
  /\ runs' = [runs EXCEPT ![r].pc = "loop"]
  /\ UNCHANGED <<daily_metrics, faults, outsideScripts>>

\* The CREATE TABLE statement throws: the outer catch logs, finally follows.
EnsureTableFails(r) ==
  /\ runs[r].pc = "ensure"
  /\ faults < MaxFaults
  /\ faults' = faults + 1
  /\ runs' = [runs EXCEPT ![r].pc = "finally"]
  /\ UNCHANGED <<daily_metrics, outsideScripts>>

\* One iteration of the metric loop: generate the value, execute the INSERT.
ExecuteUpsert(r) ==
  /\ runs[r].pc = "loop"
  /\ \E k1, k2 \in RandomDraws :
       LET run    == runs[r]
           metric == ScriptMetrics(run.script)[run.j]
           key    == CurrentKey(run)
           value  == GenerateValue(run.script, metric, key.representative,
                                   key.metric_date, k1, k2)
       IN /\ daily_metrics' = Upsert(daily_metrics, key, value, metric.type,
                                      ScriptSource(run.script), r)
          /\ runs' = [runs EXCEPT ![r] = Advance(run)]
  /\ UNCHANGED <<faults, outsideScripts>>

\* connection.execute throws: the inner catch logs and the loop goes on.
ExecuteFails(r) ==
  /\ runs[r].pc = "loop"
  /\ faults < MaxFaults
  /\ faults' = faults + 1
  /\ runs' = [runs EXCEPT ![r] =
       Advance([runs[r] EXCEPT !.failed = runs[r].failed \cup {CurrentKey(runs[r])}])]
  /\ UNCHANGED <<daily_metrics, outsideScripts>>

\* finally: await connection.end(); then .then(() => process.exit(0)).
EndConnection(r) ==
  /\ runs[r].pc = "finally"
  /\ runs' = [runs EXCEPT ![r].pc = "exited", ![r].conn = "closed", ![r].exit = 0]
  /\ UNCHANGED <<daily_metrics, faults, outsideScripts>>

\* connection.end() throws inside finally: the promise rejects and
\* .catch(err => process.exit(1)) runs.
EndFails(r) ==
  /\ runs[r].pc = "finally"
  /\ faults < MaxFaults
  /\ faults' = faults + 1
  /\ runs' = [runs EXCEPT ![r].pc = "exited", ![r].exit = 1]
  /\ UNCHANGED <<daily_metrics, outsideScripts>>

\* No invocation is between its start and its exit.
Quiet == \A r \in RunIds : runs[r].pc \in {"idle", "exited"}

\* The scripts are invoked one after another (the daily job, a manual
\* re-run once it is over); any database call may fail.
Next ==
  \E r \in RunIds :
    \/ \E script \in Scripts : Quiet /\ Connect(r, script)
    \/ \E script \in Scripts : Quiet /\ ConnectFails(r, script)
    \/ EnsureTableExists(r)
    \/ EnsureTableFails(r)
    \/ ExecuteUpsert(r)
    \/ ExecuteFails(r)
    \/ EndConnection(r)
    \/ EndFails(r)

Spec == Init /\ [][Next]_vars

\* Invocations may overlap (a manual run started while another one is still
\* writing); every database call succeeds.
NextOverlap ==
  \E r \in RunIds :
    \/ \E script \in Scripts : Connect(r, script)
    \/ EnsureTableExists(r)
    \/ ExecuteUpsert(r)
    \/ EndConnection(r)

SpecOverlap == Init /\ [][NextOverlap]_vars

\* -------------------------------------------------------------- dashboard
\* The dashboard (server.js) reads the table while the scripts write it.
\* AVG of a DECIMAL(15,2) column is a DECIMAL with four more decimals:
\* total_value is kept as its hundredths and the four decimals below them
\* (rest, in millionths); a SUM has rest 0.

\* The dates a request may ask for: req.query.date || today.
RequestDates == {Today - 1, Today}

\* The twelve metrics, without their prefix.
KnownMetricNames ==
  {calculatedMetrics[j].name : j \in 1..Len(calculatedMetrics)}
  \cup {metricNames[j].name : j \in 1..Len(metricNames)}

\* metric_name LIKE 'calculated_%', over the names the table holds.
IsCalculated(metricName) ==
  \E name \in KnownMetricNames : metricName = "calculated_" \o name

\* metric_name LIKE '%part%', over the names the table holds (no metric name
\* is part of another one the totals query asks for).
NameLike(metricName, part) ==
  \E prefix \in {"", "calculated_", "master_"} : metricName = prefix \o part

\* The four metrics the totals query keeps, in the order of its ORDER BY.
TotalMetricNames ==
  <<"appointments_booked", "appointments_canceled", "appointments_conducted",
    "average_deal_size">>

\* REPLACE(REPLACE(metric_name, 'calculated_', ''), 'Calculated ', '').
CleanMetricName(metricName) ==
  IF IsCalculated(metricName)
    THEN CHOOSE name \in KnownMetricNames : metricName = "calculated_" \o name
    ELSE metricName

RECURSIVE SumOfValues(_, _)
\* SUM(metric_value) over a set of rows of the table, in hundredths.
SumOfValues(table, rows) ==
  IF rows = {} THEN 0
  ELSE LET row == CHOOSE x \in rows : TRUE
       IN CopiesIn(row, table) * row.metric_value
          + SumOfValues(table, rows \ {row})

RECURSIVE CountOfRows(_, _)
\* COUNT(*) over a set of rows of the table.
CountOfRows(table, rows) ==
  IF rows = {} THEN 0
  ELSE LET row == CHOOSE x \in rows : TRUE
       IN CopiesIn(row, table) + CountOfRows(table, rows \ {row})

\* SUM(metric_value).
SumAggregate(table, rows) ==
  [hundredths |-> SumOfValues(table, rows), rest |-> 0]

\* An average taken with SUM, as the totals query did before it told the
\* metrics apart.
AvgAsSum(table, rows) == [hundredths |-> SumOfValues(table, rows), rest |-> 0]

\* AVG(metric_value): the sum divided by the number of rows, rounded to six
\* decimals.
AvgAggregate(table, rows) ==
  LET sum   == SumOfValues(table, rows)
      count == CountOfRows(table, rows)
      rest  == MathRound(10000 * (sum % count), count)
  IN IF rest = 10000
       THEN [hundredths |-> (sum \div count) + 1, rest |-> 0]
       ELSE [hundredths |-> sum \div count, rest |-> rest]

\* The totals query with AVG for every metric.
TotalValueAvgOnly(table, cleanName, rows) == AvgAggregate(table, rows)

\* CASE WHEN metric_name LIKE '%average_deal_size%' THEN AVG(metric_value)
\*      ELSE SUM(metric_value) END as total_value.
TotalValue(table, cleanName, rows) ==
  IF NameLike(cleanName, "average_deal_size")
    THEN AvgAggregate(table, rows)
    ELSE SumAggregate(table, rows)

\* A WHERE clause that lets every calculated metric into the totals.
TotalsFilterAllCalculated(row, date) ==
  row.metric_date = date /\ IsCalculated(row.metric_name)

\* WHERE metric_date = ? AND metric_name LIKE 'calculated_%' AND (... OR ...).
TotalsFilter(row, date) ==
  /\ row.metric_date = date
  /\ IsCalculated(row.metric_name)
  /\ \E n \in 1..Len(TotalMetricNames) :
       NameLike(row.metric_name, TotalMetricNames[n])

\* The totalMetrics query: the selected rows grouped by clean_metric_name and
\* metric_type, one result row per group (the result is kept as a set; its
\* ORDER BY only fixes the order of the cards).
TotalMetrics(table, date) ==
  LET selected == {row \in BagToSet(table) : TotalsFilter(row, date)}
      groups   == {<<CleanMetricName(row.metric_name), row.metric_type>> :
                     row \in selected}
      Group(g) == {row \in selected :
                     /\ CleanMetricName(row.metric_name) = g[1]
                     /\ row.metric_type = g[2]}
  IN {[clean_metric_name |-> g[1], metric_type |-> g[2],
       total_value |-> TotalValue(table, g[1], Group(g))] : g \in groups}

\* app.get("/"): getDbConnection() succeeds, selectedDate is taken from the
\* query string.
DashboardConnect(date) ==
  /\ request.pc \in {"idle", "done"}
  /\ request' = [IdleRequest EXCEPT !.pc = "connected", !.conn = "open",
                                    !.selectedDate = date]
  /\ UNCHANGED <<daily_metrics, runs, faults, outsideRequest>>

\* const [totalMetrics] = await connection.execute(...).
QueryTotalMetrics ==
  /\ request.pc = "connected"
  /\ request' = [request EXCEPT !.pc = "totals",
                   !.totalMetrics = TotalMetrics(daily_metrics, request.selectedDate)]
  /\ UNCHANGED <<daily_metrics, runs, faults, outsideRequest>>

\* await connection.end(); res.render("dashboard", {..., totalMetrics, ...}):
\* the page is sent and the handler's locals are gone.
RenderDashboard ==
  /\ request.pc = "totals"
  /\ request' = [request EXCEPT !.pc = "done", !.conn = "closed", !.status = 200,
                                !.totalMetrics = {}]
  /\ UNCHANGED <<daily_metrics, runs, faults, outsideRequest>>

\* An await of the handler throws: catch, res.status(500).render("error").
DashboardFails ==
  /\ request.pc \in {"idle", "done", "connected", "totals"}
  /\ faults < MaxFaults
  /\ faults' = faults + 1
  /\ request' = [IdleRequest EXCEPT
                   !.pc = "done", !.status = 500,
                   !.conn = IF request.pc \in {"connected", "totals"}
                              THEN "open" ELSE "none",
                   !.selectedDate = request.selectedDate]
  /\ UNCHANGED <<daily_metrics, runs, outsideRequest>>

InitDashboard ==
  /\ daily_metrics = EmptyBag
  /\ runs = [r \in RunIds |-> IdleRun]
  /\ faults = 0
  /\ roster = RosterSize(DashReps)
  /\ request = IdleRequest
  /\ sources = IdleSources
  /\ job = IdleJob
  /\ reconciliation = IdleReconciliation
  /\ verification = IdleVerification
  /\ view = IdleView
  /\ page = IdlePage
  /\ chartManager = IdleChartManager

\* add-today-data.js fills today's rows, once, while the dashboard is
\* being requested.
NextDashboard ==
  \/ Connect(1, "today")
  \/ ExecuteUpsert(1)
  \/ EndConnection(1)
  \/ \E date \in RequestDates : DashboardConnect(date)
  \/ QueryTotalMetrics
  \/ RenderDashboard
  \/ DashboardFails

SpecDashboard == InitDashboard /\ [][NextDashboard]_vars

\* --------------------------------------------------- pipeline: the fetches
\* The reporting pipeline (main.py) is not part of the sources that are
\* modelled above; its fetch stage follows sections 5, 6 and 7 of its
\* specification. A fetch returns a number of records; what the records say
\* is the reconciliation's concern, below.

\* A fetch is over: it returned, timed out or failed.
Finished(source) == source.status \in {"ok", "timeout", "error"}

\* The join that goes ahead as soon as one fetch is over.
AnyFetched == \E s \in Sources : Finished(sources[s])

\* "results are joined only after all three complete".
AllFetched == \A s \in Sources : Finished(sources[s])

\* What a timed-out or failed source would contribute if its partial result
\* were used: the records received so far.
ContributionOfAnyStatus(source) == source.records

\* "a timed-out source degrades that source's contribution to no data".
Contribution(source) == IF source.status = "ok" THEN source.records ELSE 0

\* The fetches "may be issued concurrently": each is issued on its own, in
\* any order, without waiting for another.
IssueFetch(s) ==
  /\ job.pc = "fetching"
  /\ sources[s].status = "idle"
  /\ sources' = [sources EXCEPT ![s].status = "pending"]
  /\ UNCHANGED <<job, reconciliation, outsidePipeline>>

\* The provider answers with its records.
FetchReturns(s, n) ==
  /\ sources[s].status = "pending"
  /\ sources' = [sources EXCEPT ![s].status = "ok", ![s].records = n]
  /\ UNCHANGED <<job, reconciliation, outsidePipeline>>

\* "rate limit (retry with backoff)": the fetch is issued again.
FetchRateLimited(s) ==
  /\ sources[s].status = "pending"
  /\ sources[s].retries < MaxRetries
  /\ sources' = [sources EXCEPT ![s].retries = sources[s].retries + 1]
  /\ UNCHANGED <<job, reconciliation, outsidePipeline>>

\* "every external call carries a timeout"; records that arrived before it
\* expired are not a result.
FetchTimesOut(s, n) ==
  /\ sources[s].status = "pending"
  /\ sources' = [sources EXCEPT ![s].status = "timeout", ![s].records = n]
  /\ UNCHANGED <<job, reconciliation, outsidePipeline>>

\* "auth error (fatal for that source)".
FetchErrors(s) ==
  /\ sources[s].status = "pending"
  /\ sources' = [sources EXCEPT ![s].status = "error"]
  /\ UNCHANGED <<job, reconciliation, outsidePipeline>>

\* The join: each source's contribution, and a warning "data unavailable
\* for X" for each source without one.
Join ==
  /\ job.pc = "fetching"
  /\ AllFetched
  /\ job' = [job EXCEPT
       !.pc = "joined",
       !.inputs = [s \in Sources |-> Contribution(sources[s])],
       !.warnings = {s \in Sources : sources[s].status # "ok"}]
  /\ UNCHANGED <<sources, reconciliation, outsidePipeline>>

\* Reconcile, calculate, persist and publish what the sources delivered;
\* "all three sources failed" is total failure and nothing is computed.
Compute ==
  /\ job.pc = "joined"
  /\ job' = [job EXCEPT
       !.pc = "computed",
       !.computed = \E s \in Sources : sources[s].status = "ok"]
  /\ UNCHANGED <<sources, reconciliation, outsidePipeline>>

\* "Exit code 0 on success (even with individual source degradation ...),
\* non-zero on total failure".
Terminate ==
  /\ job.pc = "computed"
  /\ job' = [job EXCEPT !.pc = "done", !.exit = IF job.computed THEN 0 ELSE 1]
  /\ UNCHANGED <<sources, reconciliation, outsidePipeline>>

InitFetch ==
  /\ daily_metrics = EmptyBag
  /\ runs = [r \in RunIds |-> IdleRun]
  /\ faults = 0
  /\ roster = RosterSize(NumReps)
  /\ request = IdleRequest
  /\ sources = IdleSources
  /\ job = IdleJob
  /\ reconciliation = IdleReconciliation
  /\ verification = IdleVerification
  /\ view = IdleView
  /\ page = IdlePage
  /\ chartManager = IdleChartManager

NextFetch ==
  \/ \E s \in Sources :
       \/ IssueFetch(s)
       \/ \E n \in 0..MaxRecords : FetchReturns(s, n)
       \/ FetchRateLimited(s)
       \/ \E n \in 0..MaxRecords : FetchTimesOut(s, n)
       \/ FetchErrors(s)
  \/ Join
  \/ Compute
  \/ Terminate

\* A pending call ends (its timeout sees to that) and the run's own steps
\* are taken when they can be.
SpecFetch == InitFetch /\ [][NextFetch]_vars /\ WF_vars(NextFetch)

\* ------------------------------------------- pipeline: reconcile, calculate
\* The Reconciler and the Metric Calculator of the pipeline, for one (date,
\* representative) bucket, after sections 3, 4.2 and 4.3 of the
\* specification. Counts are plain numbers, amounts are in hundredths, a
\* percentage is kept at full precision as the fraction num / den.

\* What the scheduler reports for the bucket; present is FALSE when the
\* source delivered nothing for it.
BookedCounts == {0, 4, 13}

CanceledCounts == {0, 2}

CompletedCounts == {0, 4, 9}

ConductedCounts == {0, 5, 9}

SchedulerReports ==
  {[present |-> FALSE, booked |-> 0, canceled |-> 0, completed |-> 0]}
  \cup [present : {TRUE}, booked : BookedCounts, canceled : CanceledCounts,
        completed : CompletedCounts]

ConferencingReports ==
  {[present |-> FALSE, conducted |-> 0]}
  \cup [present : {TRUE}, conducted : ConductedCounts]

\* organic_clients_closed is an input of the calculator that the data model
\* derives from no event.
OrganicCounts == {0, 1}

DealKinds == {"new_client", "rebuy"}

DealAmounts == {200000, 300000}

SourceIds == 1..MaxDealRows

\* DealEvent, for the rows of the bucket.
DealRows == [source_id : SourceIds, deal_kind : DealKinds, amount : DealAmounts]

\* The rows one spreadsheet fetch holds for the bucket, in row order.
DealFetches == UNION {[1..n -> DealRows] : n \in 0..MaxDealRows}

\* No row before this one has its source_id.
IsFirstOfItsId(rows, i) ==
  \A j \in 1..(i - 1) : rows[j].source_id # rows[i].source_id

\* No row after this one has its source_id.
IsLastOfItsId(rows, i) ==
  \A j \in (i + 1)..Len(rows) : rows[j].source_id # rows[i].source_id

RECURSIVE FirstsFrom(_, _)
\* The rows from position i on that are the first of their source_id.
FirstsFrom(rows, i) ==
  IF i > Len(rows) THEN <<>>
  ELSE (IF IsFirstOfItsId(rows, i) THEN <<rows[i]>> ELSE <<>>)
       \o FirstsFrom(rows, i + 1)

RECURSIVE LastsFrom(_, _)
\* The rows from position i on that are the last of their source_id.
LastsFrom(rows, i) ==
  IF i > Len(rows) THEN <<>>
  ELSE (IF IsLastOfItsId(rows, i) THEN <<rows[i]>> ELSE <<>>)
       \o LastsFrom(rows, i + 1)

\* Deduplication that keeps the first row of a source_id.
DedupFirstWins(rows) == FirstsFrom(rows, 1)

\* "duplicate source_id rows within the same fetch are deduplicated (last
\* write wins by row order)".
Dedup(rows) == LastsFrom(rows, 1)

RECURSIVE GroupCount(_, _)
\* The number of rows of one deal_kind.
GroupCount(rows, kind) ==
  IF rows = <<>> THEN 0
  ELSE (IF Head(rows).deal_kind = kind THEN 1 ELSE 0) + GroupCount(Tail(rows), kind)

RECURSIVE GroupSum(_, _)
\* The amounts of the rows of one deal_kind, added up.
GroupSum(rows, kind) ==
  IF rows = <<>> THEN 0
  ELSE (IF Head(rows).deal_kind = kind THEN Head(rows).amount ELSE 0)
       + GroupSum(Tail(rows), kind)

\* "group DealEvent by (date, representative, deal_kind); sum amounts and
\* counts", over the deduplicated rows.
GroupDeals(kept) ==
  [new_deals          |-> GroupCount(kept, "new_client"),
   rebuy_deals        |-> GroupCount(kept, "rebuy"),
   new_client_revenue |-> GroupSum(kept, "new_client"),
   rebuy_revenue      |-> GroupSum(kept, "rebuy")]

\* A reconciler that trusts the scheduler's completed flags first.
RawConductedSchedulerFirst(sched, conf) ==
  IF sched.present THEN sched.completed
  ELSE IF conf.present THEN conf.conducted ELSE 0

\* "the conferencing provider is authoritative for conducted status;
\* scheduler-side completed flags are a fallback only when conferencing data
\* is absent for that bucket".
RawConducted(sched, conf) ==
  IF conf.present THEN conf.conducted
  ELSE IF sched.present THEN sched.completed ELSE 0

\* A reconciler that surfaces the raw count.
KeepRawConducted(raw, booked) == raw

\* "conducted_count is clamped to min(conducted_count, booked_count)".
ClampConducted(raw, booked) == Min(raw, booked)

\* The appointment side of the Reconciler (section 4.2), with its warnings.
ReconcileAppointments(sched, conf) ==
  LET booked == IF sched.present THEN sched.booked ELSE 0
      raw    == RawConducted(sched, conf)
  IN [booked        |-> booked,
      canceled      |-> IF sched.present THEN sched.canceled ELSE 0,
      raw_conducted |-> raw,
      conducted     |-> ClampConducted(raw, booked),
      warnings      |->
        (IF sched.present /\ conf.present /\ sched.completed # conf.conducted
           THEN {"conflicting conducted counts"} ELSE {})
        \cup (IF raw > booked THEN {"conducted clamped to booked"} ELSE {})]

\* A rate computed as a fraction of 1.
RateOfOne(part, whole) ==
  IF whole = 0 THEN [num |-> 0, den |-> 1] ELSE [num |-> part, den |-> whole]

\* part / whole x 100, 0 when the whole is 0; full precision.
Rate(part, whole) ==
  IF whole = 0 THEN [num |-> 0, den |-> 1] ELSE [num |-> 100 * part, den |-> whole]

\* "percentages round to 1 decimal place for display": in tenths.
DisplayPercentage(rate) == MathRound(10 * rate.num, rate.den)

\* total_revenue / total_deals, 0 if total_deals = 0; half-up to hundredths.
AverageDealSize(revenue, dealCount) ==
  IF dealCount = 0 THEN 0 ELSE MathRound(revenue, dealCount)

\* The Metric Calculator (section 4.3): the twelve metrics of a bucket.
Calculate(appointments, deals, organic) ==
  [appointments_booked      |-> appointments.booked,
   appointments_canceled    |-> appointments.canceled,
   appointments_conducted   |-> appointments.conducted,
   close_rate               |-> Rate(deals.new_deals + organic, appointments.conducted),
   show_rate                |-> Rate(appointments.conducted, appointments.booked),
   average_deal_size        |->
     AverageDealSize(deals.new_client_revenue + deals.rebuy_revenue,
                     deals.new_deals + deals.rebuy_deals),
   new_clients_closed       |-> deals.new_deals,
   organic_clients_closed   |-> organic,
   total_new_clients_closed |-> deals.new_deals + organic,
   new_client_revenue       |-> deals.new_client_revenue,
   rebuy_revenue            |-> deals.rebuy_revenue,
   total_revenue            |-> deals.new_client_revenue + deals.rebuy_revenue]

\* Deal reconciliation, first half: the bucket's fetched rows are
\* deduplicated.
DeduplicateDealRows ==
  /\ reconciliation.pc = "start"
  /\ \E rows \in DealFetches :
       reconciliation' = [pc |-> "deduplicated", rows |-> rows, kept |-> Dedup(rows)]
  /\ UNCHANGED <<sources, job, outsidePipeline>>

\* Deal reconciliation, second half: counts and sums per deal_kind; the raw
\* rows are not kept ("fetched fresh each run, no persistence of raw events").
SumDeals ==
  /\ reconciliation.pc = "deduplicated"
  /\ reconciliation' = [pc |-> "deals", deals |-> GroupDeals(reconciliation.kept)]
  /\ UNCHANGED <<sources, job, outsidePipeline>>

\* Appointment reconciliation of the bucket's two reports.
ReconcileReports(sched, conf) ==
  /\ reconciliation.pc = "deals"
  /\ reconciliation' =
       [pc |-> "appointments", deals |-> reconciliation.deals,
        sched |-> sched, conf |-> conf,
        appointments |-> ReconcileAppointments(sched, conf)]
  /\ UNCHANGED <<sources, job, outsidePipeline>>

\* The Metric Calculator runs on the reconciled bucket.
CalculateMetrics(organic) ==
  /\ reconciliation.pc = "appointments"
  /\ reconciliation' =
       [pc |-> "metrics", deals |-> reconciliation.deals,
        sched |-> reconciliation.sched, conf |-> reconciliation.conf,
        appointments |-> reconciliation.appointments, organic |-> organic,
        metrics |-> Calculate(reconciliation.appointments, reconciliation.deals,
                              organic)]
  /\ UNCHANGED <<sources, job, outsidePipeline>>

InitReconcile ==
  /\ daily_metrics = EmptyBag
  /\ runs = [r \in RunIds |-> IdleRun]
  /\ faults = 0
  /\ roster = RosterSize(NumReps)
  /\ request = IdleRequest
  /\ sources = IdleSources
  /\ job = IdleJob
  /\ reconciliation = IdleReconciliation
  /\ verification = IdleVerification
  /\ view = IdleView
  /\ page = IdlePage
  /\ chartManager = IdleChartManager

NextReconcile ==
  \/ DeduplicateDealRows
  \/ SumDeals
  \/ \E sched \in SchedulerReports, conf \in ConferencingReports :
       ReconcileReports(sched, conf)
  \/ \E organic \in OrganicCounts : CalculateMetrics(organic)

SpecReconcile == InitReconcile /\ [][NextReconcile]_vars

\* ------------------------------------------- the store and its other users
\* The table is "created by the Python script" and holds rows before the
\* dashboard's scripts run: rows of the reporting pipeline, written without
\* a source (source VARCHAR(50) DEFAULT NULL).
LegacyRow(metricName, value) ==
  [metric_date |-> Today, representative |-> "sierra",
   metric_name |-> metricName, metric_value |-> value, metric_type |-> "count",
   source |-> "NULL", run |-> 0]

\* The rows the table may hold from before: a booked count (the key
\* add-today-data.js writes next), and a closed-clients count under both of
\* its names.
LegacyRows ==
  {LegacyRow("calculated_appointments_booked", 1300),
   LegacyRow("calculated_new_clients_closed", 300),
   LegacyRow("master_new_clients_closed", 200)}

\* ---- verify-metrics.js
\* connection = await getDbConnection(); shouldCleanup is
\* process.argv.includes('--cleanup').
VerifyConnect(cleanup) ==
  /\ verification.pc = "idle"
  /\ verification' = [IdleVerification EXCEPT !.pc = "checks", !.conn = "open",
                                              !.cleanup = cleanup]
  /\ UNCHANGED <<daily_metrics, runs, faults, roster, request, pipelineVars,
                 view, browserVars>>

\* checkCurrentMetrics, checkMasterMetrics, checkCalculatedMetrics: four
\* SELECTs whose results are only logged.
VerifyChecks ==
  /\ verification.pc = "checks"
  /\ verification' =
       [verification EXCEPT !.pc = IF verification.cleanup THEN "count" ELSE "finally"]
  /\ UNCHANGED <<daily_metrics, runs, faults, roster, request, pipelineVars,
                 view, browserVars>>

\* cleanupCalculatedMetrics: SELECT COUNT(*) ... WHERE metric_name LIKE
\* 'calculated_%'; return when the count is 0.
CountCalculated ==
  /\ verification.pc = "count"
  /\ LET count == CountOfRows(daily_metrics,
                    {row \in BagToSet(daily_metrics) : IsCalculated(row.metric_name)})
     IN verification' = [verification EXCEPT
                           !.countToDelete = count,
                           !.pc = IF count = 0 THEN "finally" ELSE "delete"]
  /\ UNCHANGED <<daily_metrics, runs, faults, roster, request, pipelineVars,
                 view, browserVars>>

\* A cleanup whose DELETE has no WHERE clause.
DeleteEveryRow(table) == EmptyBag

\* DELETE FROM daily_metrics WHERE metric_name LIKE 'calculated_%'.
DeleteCalculatedRows(table) ==
  [row \in {x \in BagToSet(table) : ~IsCalculated(x.metric_name)} |->
     CopiesIn(row, table)]

\* cleanupCalculatedMetrics: the DELETE statement.
DeleteCalculated ==
  /\ verification.pc = "delete"
  /\ daily_metrics' = DeleteCalculatedRows(daily_metrics)
  /\ verification' = [verification EXCEPT !.pc = "finally"]
  /\ UNCHANGED <<runs, faults, roster, request, pipelineVars, view, browserVars>>

\* An execute of the run throws: the catch logs, finally follows.
VerifyFails ==
  /\ verification.pc \in {"checks", "count", "delete"}
  /\ faults < MaxFaults
  /\ faults' = faults + 1
  /\ verification' = [verification EXCEPT !.pc = "finally"]
  /\ UNCHANGED <<daily_metrics, runs, roster, request, pipelineVars, view,
                 browserVars>>

\* finally: await connection.end(); then .then(() => process.exit(0)).
VerifyEnd ==
  /\ verification.pc = "finally"
  /\ verification' = [verification EXCEPT !.pc = "exited", !.conn = "closed",
                                          !.exit = 0]
  /\ UNCHANGED <<daily_metrics, runs, faults, roster, request, pipelineVars,
                 view, browserVars>>

\* ---- server.js, GET /: the per-representative and the chart query
MasterSalesNames == {"master_" \o metricNames[j].name : j \in 1..Len(metricNames)}

CalculatedSalesNames ==
  {"calculated_" \o metricNames[j].name : j \in 1..Len(metricNames)}

\* The repMetrics WHERE clause without its NOT IN list.
RepFilterAnyCalculated(row, date) ==
  /\ row.metric_date = date
  /\ \/ row.metric_name \in MasterSalesNames
     \/ IsCalculated(row.metric_name)

\* WHERE metric_date = ? AND (metric_name IN (master_ ...) OR
\* (metric_name LIKE 'calculated_%' AND metric_name NOT IN (calculated_ ...))).
RepFilter(row, date) ==
  /\ row.metric_date = date
  /\ \/ row.metric_name \in MasterSalesNames
     \/ /\ IsCalculated(row.metric_name)
        /\ row.metric_name \notin CalculatedSalesNames

\* CASE WHEN metric_name IN (master_ ...) THEN REPLACE(metric_name,
\* 'master_', '') WHEN metric_name LIKE 'calculated_%' THEN REPLACE(...)
\* ELSE metric_name END as clean_metric_name.
RepCleanMetricName(metricName) ==
  IF metricName \in MasterSalesNames
    THEN CHOOSE name \in KnownMetricNames : metricName = "master_" \o name
    ELSE CleanMetricName(metricName)

\* The repMetrics query. The result is kept as a set: its ORDER BY does not
\* order two rows of one representative and one clean name. metric_name is
\* not selected; it is kept to tell from which stored row a result row comes.
RepMetrics(table, date) ==
  {[representative |-> row.representative,
    clean_metric_name |-> RepCleanMetricName(row.metric_name),
    metric_value |-> row.metric_value, metric_type |-> row.metric_type,
    metric_date |-> row.metric_date, source |-> row.source,
    metric_name |-> row.metric_name] :
     row \in {x \in BagToSet(table) : RepFilter(x, date)}}

\* grouped[metric.representative][metric.clean_metric_name] = metric, for
\* every result row in turn: per entry, the rows that are assigned to it one
\* after another (the last one stays).
GroupMetricsByRepresentative(metrics) ==
  [entry \in {<<m.representative, m.clean_metric_name>> : m \in metrics} |->
     {m \in metrics : /\ m.representative = entry[1]
                       /\ m.clean_metric_name = entry[2]}]

\* const chartMetricNames = ['appointments_booked',
\* 'appointments_conducted', 'average_deal_size'].
ChartMetricNames ==
  <<"appointments_booked", "appointments_conducted", "average_deal_size">>

\* A chart query that asks for all three chart metrics.
ChartFilterAllThree(row, date) ==
  /\ row.metric_date = date
  /\ \E n \in 1..Len(ChartMetricNames) :
       row.metric_name = "calculated_" \o ChartMetricNames[n]

\* WHERE metric_date = ? AND (metric_name IN
\* ('calculated_appointments_conducted', 'calculated_average_deal_size')).
ChartFilter(row, date) ==
  /\ row.metric_date = date
  /\ row.metric_name \in {"calculated_appointments_conducted",
                          "calculated_average_deal_size"}

\* The chartData query.
ChartData(table, date) ==
  {[metric_date |-> row.metric_date, representative |-> row.representative,
    clean_metric_name |-> RepCleanMetricName(row.metric_name),
    metric_value |-> row.metric_value, metric_type |-> row.metric_type] :
     row \in {x \in BagToSet(table) : ChartFilter(x, date)}}

\* getChartType(metricType, metricName), for the names the query returns.
GetChartType(metricType, metricName) ==
  IF metricName \in {"appointments_booked", "appointments_conducted",
                     "new_clients_closed"}
    THEN "doughnut" ELSE "bar"

RECURSIVE TotalOf(_)
\* chartData[metricName].totalValue += parseFloat(metric.metric_value).
TotalOf(metrics) ==
  IF metrics = {} THEN 0
  ELSE LET m == CHOOSE x \in metrics : TRUE
       IN m.metric_value + TotalOf(metrics \ {m})

\* processMetricsForCharts(metrics): one entry per clean metric name, with
\* the single-day value of each representative.
ProcessMetricsForCharts(metrics) ==
  [name \in {m.clean_metric_name : m \in metrics} |->
     LET of == {m \in metrics : m.clean_metric_name = name}
     IN [metricName |-> name,
         metricType |-> (CHOOSE m \in of : TRUE).metric_type,
         representatives |->
           [r \in {m.representative : m \in of} |->
              (CHOOSE m \in of : m.representative = r).metric_value],
         totalValue |-> TotalOf(of),
         chartType |-> GetChartType((CHOOSE m \in of : TRUE).metric_type, name)]]

\* getDbConnection() has succeeded and the handler's first two queries are
\* over; selectedDate is taken from the query string.
ViewConnect(date) ==
  /\ view.pc \in {"idle", "done"}
  /\ view' = [IdleView EXCEPT !.pc = "connected", !.conn = "open",
                              !.selectedDate = date]
  /\ UNCHANGED <<daily_metrics, runs, faults, roster, request, pipelineVars,
                 verification, browserVars>>

\* const [repMetrics] = await connection.execute(...).
QueryRepMetrics ==
  /\ view.pc = "connected"
  /\ view' = [pc |-> "reps", conn |-> "open", selectedDate |-> view.selectedDate,
              status |-> 0,
              repMetrics |-> RepMetrics(daily_metrics, view.selectedDate)]
  /\ UNCHANGED <<daily_metrics, runs, faults, roster, request, pipelineVars,
                 verification, browserVars>>

\* const [chartData] = await connection.execute(...).
QueryChartData ==
  /\ view.pc = "reps"
  /\ view' = [pc |-> "charts", conn |-> "open",
              selectedDate |-> view.selectedDate, status |-> 0,
              repMetrics |-> view.repMetrics,
              chartData |-> ChartData(daily_metrics, view.selectedDate)]
  /\ UNCHANGED <<daily_metrics, runs, faults, roster, request, pipelineVars,
                 verification, browserVars>>

\* await connection.end(); groupMetricsByRepresentative(repMetrics);
\* processMetricsForCharts(chartData); res.render("dashboard", {...}).
RenderView ==
  /\ view.pc = "charts"
  /\ view' = [pc |-> "done", conn |-> "closed",
              selectedDate |-> view.selectedDate, status |-> 200,
              representativeData |-> GroupMetricsByRepresentative(view.repMetrics),
              processedChartData |-> ProcessMetricsForCharts(view.chartData)]
  /\ UNCHANGED <<daily_metrics, runs, faults, roster, request, pipelineVars,
                 verification, browserVars>>

\* The table holds some of the rows from before; add-today-data.js runs
\* once over them.
InitStore ==
  /\ \E rows \in SUBSET LegacyRows : daily_metrics = SetToBag(rows)
  /\ runs = [r \in RunIds |-> IdleRun]
  /\ faults = 0
  /\ roster = RosterSize(NumReps)
  /\ request = IdleRequest
  /\ sources = IdleSources
  /\ job = IdleJob
  /\ reconciliation = IdleReconciliation
  /\ verification = IdleVerification
  /\ view = IdleView
  /\ page = IdlePage
  /\ chartManager = IdleChartManager

\* verify-metrics.js runs once, with or without --cleanup, while
\* add-today-data.js writes.
NextStore ==
  \/ Connect(1, "today")
  \/ ExecuteUpsert(1)
  \/ EndConnection(1)
  \/ \E cleanup \in BOOLEAN : VerifyConnect(cleanup)
  \/ VerifyChecks
  \/ CountCalculated
  \/ DeleteCalculated
  \/ VerifyFails
  \/ VerifyEnd

SpecStore == InitStore /\ [][NextStore]_vars

\* The dashboard is requested while add-today-data.js writes.
NextViews ==
  \/ Connect(1, "today")
  \/ ExecuteUpsert(1)
  \/ EndConnection(1)
  \/ \E date \in RequestDates : ViewConnect(date)
  \/ QueryRepMetrics
  \/ QueryChartData
  \/ RenderView

SpecViews == InitStore /\ [][NextViews]_vars

\* ---------------------------------------------------- the page in the browser
\* The browser's timezone, in hours east of UTC (New York, UTC, Tokyo).
TimezoneOffsets == {-5, 0, 9}

HoursPerDay == 24

\* new Date('YYYY-MM-DD'): a date-only string is midnight UTC of that day;
\* instants are hours since midnight UTC of today.
ParseDate(date) == HoursPerDay * date

\* The wall clock of an instant in the browser's timezone, in hours.
LocalTime(instant, tz) == instant + tz

\* navigateDate(days): newDate = new Date(currentDate);
\* newDate.setDate(newDate.getDate() + days);
\* moment(newDate).format('YYYY-MM-DD'). getDate, setDate and format work
\* on the local wall clock; setDate keeps the time of day.
NavigatedDate(date, days, tz) ==
  LET local == LocalTime(ParseDate(date), tz)
      hour  == local % HoursPerDay
      day   == (local - hour) \div HoursPerDay
  IN ((day + days) * HoursPerDay + hour) \div HoursPerDay

\* A page that starts with the default theme whatever was saved.
IgnoreSavedTheme(savedTheme) == "light"

\* <html data-theme="light">, then: if (savedTheme)
\* htmlElement.setAttribute('data-theme', savedTheme).
RestoredTheme(savedTheme) == IF savedTheme = "none" THEN "light" ELSE savedTheme

\* The click handler's branch on getAttribute('data-theme') === 'light'.
ToggledTheme(theme) == IF theme = "light" THEN "dark" ELSE "light"

\* The canvases the page can have: one per chart metric that has data.
Canvases == {ChartMetricNames[n] : n \in 1..Len(ChartMetricNames)}

\* The keys window.chartData can have: the metrics the chart query returns.
ChartDataKeys == SUBSET {"appointments_conducted", "average_deal_size"}

\* No setTimeout is pending.
NoTimers == [theme |-> 0, manual |-> 0, create |-> [c \in Canvases |-> 0]]

\* The response to GET /?date=... as the browser has parsed it: data-theme
\* is "light", window.chartData is set by the inline script (when it has
\* run), no listener has been called yet.
LoadedPage(tz, date, arrow, savedTheme, chartJs, chartDataSet, chartData) ==
  [pc |-> "loading", tz |-> tz, selectedDate |-> date, arrow |-> arrow,
   dataTheme |-> "light", localStorage |-> savedTheme, clicks |-> 0,
   chartJs |-> chartJs, chartDataSet |-> chartDataSet, chartData |-> chartData,
   timers |-> NoTimers, instances |-> << >>]

\* constructor(): charts = new Map(), isDarkMode = false, isInitialized =
\* false; init() finds document.readyState "loading" and waits for
\* DOMContentLoaded.
NewChartManager ==
  [pc |-> "constructed", isDarkMode |-> FALSE, isInitialized |-> FALSE,
   listening |-> FALSE, attempts |-> 0, charts |-> [c \in Canvases |-> 0],
   globalError |-> FALSE]

\* if (typeof Chart !== "undefined") chartManager = new
\* DashboardChartManager(); window.chartManager = chartManager.
ScriptRuns(chartJs) == IF chartJs THEN NewChartManager ELSE IdleChartManager

\* while (typeof Chart === "undefined" && attempts < 50).
ChartPolls == 50

\* while (!window.chartData && attempts < 30).
DataPolls == 30

\* chart.destroy() of the chart a map entry holds (0: no entry).
DestroyChart(instances, id) ==
  IF id = 0 THEN instances ELSE [instances EXCEPT ![id].live = FALSE]

\* createChart(canvas, metricName) on w = [m: the manager, instances: the
\* Chart objects made so far]: without data for the metric the no-data
\* message is drawn; else the map's chart of the canvas is destroyed and a
\* new Chart is made with the manager's isDarkMode and put into the map.
\* new Chart throws when Chart is undefined or the canvas is still in use:
\* the catch draws the error message.
CreateChart(w, canvas, env) ==
  IF ~env.chartDataSet \/ canvas \notin env.chartData THEN w
  ELSE LET destroyed == DestroyChart(w.instances, w.m.charts[canvas])
       IN IF \/ ~env.chartJs
             \/ \E i \in 1..Len(destroyed) :
                  destroyed[i].canvas = canvas /\ destroyed[i].live
            THEN [w EXCEPT !.instances = destroyed]
            ELSE [m |-> [w.m EXCEPT !.charts[canvas] = Len(destroyed) + 1],
                  instances |->
                    Append(destroyed, [canvas |-> canvas,
                                       dark |-> w.m.isDarkMode, live |-> TRUE])]

RECURSIVE CreateChartsFrom(_, _, _)
\* Object.keys(this.chartConfigs).forEach(...): the canvases in turn.
CreateChartsFrom(w, n, env) ==
  IF n > Len(ChartMetricNames) THEN w
  ELSE CreateChartsFrom(CreateChart(w, ChartMetricNames[n], env), n + 1, env)

\* initializeCharts(): the no-data message everywhere when window.chartData
\* is missing or empty, else createChart for every canvas of the page (a
\* canvas exists for the metrics that have data).
InitializeCharts(w, env) ==
  IF ~env.chartDataSet \/ env.chartData = {} THEN w
  ELSE CreateChartsFrom(w, 1, env)

\* A rejection nobody reports.
RejectSilently(w) == [w EXCEPT !.m.pc = "failed"]

\* .catch: showGlobalError(); isInitialized stays false.
Reject(w) == [w EXCEPT !.m.pc = "failed", !.m.globalError = TRUE]

\* .then: configureChartDefaults(); initializeCharts(); isInitialized = true.
Resolve(w, env) ==
  LET made == InitializeCharts(w, env)
  IN [made EXCEPT !.m.pc = "initialized", !.m.isInitialized = TRUE]

\* waitForDependencies from the test of its second loop on: wait another
\* 100 ms, or leave the loop and throw or return.
DataLoop(w, env) ==
  IF ~env.chartDataSet /\ w.m.attempts < DataPolls
    THEN [w EXCEPT !.m.pc = "waitData"]
  ELSE IF ~env.chartDataSet THEN Reject(w)
  ELSE Resolve(w, env)

\* waitForDependencies from the test of its first loop on.
ChartLoop(w, env) ==
  IF ~env.chartJs /\ w.m.attempts < ChartPolls
    THEN [w EXCEPT !.m.pc = "waitChart"]
  ELSE IF ~env.chartJs THEN Reject(w)
  ELSE DataLoop([w EXCEPT !.m.attempts = 0], env)

\* setup(): updateTheme(), applyInitialTheme(), setupThemeListener(),
\* waitForDependencies() up to its first await and, when it returns at
\* once, the .then callback (a microtask, run before the next listener).
Setup(w, env) ==
  ChartLoop([w EXCEPT !.m.isDarkMode = (env.dataTheme = "dark"),
                      !.m.listening = TRUE], env)

\* DOMContentLoaded: the listeners in the order they were added: the chart
\* manager's setup (added by the script in the head), then the inline
\* script's: the saved theme is applied, and the manual trigger is set to
\* run after 50 ms.
DOMContentLoaded ==
  /\ page.pc = "loading"
  /\ LET w0 == [m |-> chartManager, instances |-> page.instances]
         w1 == IF chartManager.pc = "constructed" THEN Setup(w0, page) ELSE w0
     IN /\ chartManager' = w1.m
        /\ page' = [page EXCEPT !.pc = "ready",
                                !.dataTheme = RestoredTheme(page.localStorage),
                                !.instances = w1.instances,
                                !.timers.manual = 1]
  /\ UNCHANGED <<daily_metrics, runs, faults, roster, request, pipelineVars,
                 verification, view>>

\* A click on #themeToggle: the manager's listener sets its 100 ms timer,
\* the inline listener flips data-theme and saves it.
ThemeToggleClick ==
  /\ page.pc = "ready"
  /\ page.clicks < MaxClicks
  /\ page' = [page EXCEPT
                !.clicks = page.clicks + 1,
                !.dataTheme = ToggledTheme(page.dataTheme),
                !.localStorage = ToggledTheme(page.dataTheme),
                !.timers.theme =
                  IF chartManager.pc # "none" /\ chartManager.listening
                    THEN page.timers.theme + 1 ELSE page.timers.theme]
  /\ UNCHANGED <<daily_metrics, runs, faults, roster, request, pipelineVars,
                 verification, view, chartManager>>

\* A click on #prevDate (-1) or #nextDate (+1): window.location.href =
\* `/?date=...`; the server renders the page of that date. The model
\* follows dates up to MaxDaysAway from today.
NavigateDate(days) ==
  /\ page.pc = "ready"
  /\ LET newDate == NavigatedDate(page.selectedDate, days, page.tz)
     IN /\ -MaxDaysAway <= newDate /\ newDate <= MaxDaysAway
        /\ page' = LoadedPage(page.tz, newDate,
                              IF days < 0 THEN "left" ELSE "right",
                              page.localStorage, page.chartJs,
                              page.chartDataSet, page.chartData)
        /\ chartManager' = ScriptRuns(page.chartJs)
  /\ UNCHANGED <<daily_metrics, runs, faults, roster, request, pipelineVars,
                 verification, view>>

\* The page is loaded again.
ReloadPage ==
  /\ page.pc = "ready"
  /\ page' = LoadedPage(page.tz, page.selectedDate, "none", page.localStorage,
                        page.chartJs, page.chartDataSet, page.chartData)
  /\ chartManager' = ScriptRuns(page.chartJs)
  /\ UNCHANGED <<daily_metrics, runs, faults, roster, request, pipelineVars,
                 verification, view>>

\* The 50 ms timer of the inline script: if (window.chartManager &&
\* !window.chartManager.isInitialized) window.chartManager.initializeCharts().
ManualTimerFires ==
  /\ page.pc = "ready"
  /\ page.timers.manual > 0
  /\ LET w0 == [m |-> chartManager, instances |-> page.instances]
         w1 == IF chartManager.pc # "none" /\ ~chartManager.isInitialized
                 THEN InitializeCharts(w0, page) ELSE w0
     IN /\ chartManager' = w1.m
        /\ page' = [page EXCEPT !.timers.manual = 0, !.instances = w1.instances]
  /\ UNCHANGED <<daily_metrics, runs, faults, roster, request, pipelineVars,
                 verification, view>>

RECURSIVE DestroyChartsFrom(_, _, _)
\* this.charts.forEach(...): chart.destroy() for every entry of the map.
DestroyChartsFrom(instances, charts, n) ==
  IF n > Len(ChartMetricNames) THEN instances
  ELSE DestroyChartsFrom(DestroyChart(instances, charts[ChartMetricNames[n]]),
                         charts, n + 1)

\* The 100 ms timer of the manager's click listener: updateTheme(),
\* applyInitialTheme() and, if isInitialized, updateAllChartsTheme(): every
\* chart of the map is destroyed and createChart is set to run after 200 ms.
ThemeTimerFires ==
  /\ page.pc = "ready"
  /\ page.timers.theme > 0
  /\ chartManager' = [chartManager EXCEPT !.isDarkMode = (page.dataTheme = "dark")]
  /\ page' =
       IF chartManager.isInitialized
         THEN [page EXCEPT
                 !.timers.theme = page.timers.theme - 1,
                 !.timers.create =
                   [c \in Canvases |->
                      IF chartManager.charts[c] # 0
                        THEN page.timers.create[c] + 1 ELSE page.timers.create[c]],
                 !.instances =
                   DestroyChartsFrom(page.instances, chartManager.charts, 1)]
         ELSE [page EXCEPT !.timers.theme = page.timers.theme - 1]
  /\ UNCHANGED <<daily_metrics, runs, faults, roster, request, pipelineVars,
                 verification, view>>

\* The 200 ms timer of updateAllChartsTheme: this.createChart(canvas,
\* metricName).
CreateTimerFires(canvas) ==
  /\ page.pc = "ready"
  /\ page.timers.create[canvas] > 0
  /\ LET w1 == CreateChart([m |-> chartManager, instances |-> page.instances],
                           canvas, page)
     IN /\ chartManager' = w1.m
        /\ page' = [page EXCEPT
                      !.timers.create[canvas] = page.timers.create[canvas] - 1,
                      !.instances = w1.instances]
  /\ UNCHANGED <<daily_metrics, runs, faults, roster, request, pipelineVars,
                 verification, view>>

\* A 100 ms timer of waitForDependencies: attempts++, then the loop's test.
PollFires ==
  /\ page.pc = "ready"
  /\ chartManager.pc \in {"waitChart", "waitData"}
  /\ LET w0 == [m |-> [chartManager EXCEPT !.attempts = chartManager.attempts + 1],
                instances |-> page.instances]
         w1 == IF chartManager.pc = "waitChart" THEN ChartLoop(w0, page)
               ELSE DataLoop(w0, page)
     IN /\ chartManager' = w1.m
        /\ page' = [page EXCEPT !.instances = w1.instances]
  /\ UNCHANGED <<daily_metrics, runs, faults, roster, request, pipelineVars,
                 verification, view>>

\* The Chart.js script arrives: typeof Chart is no longer "undefined".
ChartJsLoads ==
  /\ page.pc \in {"loading", "ready"}
  /\ ~page.chartJs
  /\ page' = [page EXCEPT !.chartJs = TRUE]
  /\ UNCHANGED <<daily_metrics, runs, faults, roster, request, pipelineVars,
                 verification, view, chartManager>>

\* window.chartData is assigned.
ChartDataArrives ==
  /\ page.pc \in {"loading", "ready"}
  /\ ~page.chartDataSet
  /\ page' = [page EXCEPT !.chartDataSet = TRUE]
  /\ UNCHANGED <<daily_metrics, runs, faults, roster, request, pipelineVars,
                 verification, view, chartManager>>

\* Everything but the browser's side.
InitServerIdle ==
  /\ daily_metrics = EmptyBag
  /\ runs = [r \in RunIds |-> IdleRun]
  /\ faults = 0
  /\ roster = RosterSize(NumReps)
  /\ request = IdleRequest
  /\ sources = IdleSources
  /\ job = IdleJob
  /\ reconciliation = IdleReconciliation
  /\ verification = IdleVerification
  /\ view = IdleView

\* Today's page has arrived in a browser of some timezone that could not
\* load Chart.js (no chart manager is made); nothing is saved yet.
InitPage ==
  /\ InitServerIdle
  /\ \E tz \in TimezoneOffsets :
       page = LoadedPage(tz, Today, "none", "none", FALSE, TRUE, {})
  /\ chartManager = ScriptRuns(FALSE)

\* Date navigation, theme toggle and reloads.
NextPage ==
  \/ DOMContentLoaded
  \/ ThemeToggleClick
  \/ NavigateDate(-1)
  \/ NavigateDate(1)
  \/ ReloadPage
  \/ ManualTimerFires

SpecPage == InitPage /\ [][NextPage]_vars

\* The page has arrived with Chart.js loaded and window.chartData set; a
\* theme may be saved from an earlier visit.
InitCharts ==
  /\ InitServerIdle
  /\ \E savedTheme \in {"none", "light", "dark"}, chartData \in ChartDataKeys :
       page = LoadedPage(0, Today, "none", savedTheme, TRUE, TRUE, chartData)
  /\ chartManager = ScriptRuns(TRUE)

\* One page load: initialization, theme clicks and the timers they set.
NextCharts ==
  \/ DOMContentLoaded
  \/ ThemeToggleClick
  \/ ManualTimerFires
  \/ ThemeTimerFires
  \/ \E canvas \in Canvases : CreateTimerFires(canvas)

SpecCharts == InitCharts /\ [][NextCharts]_vars

\* new DashboardChartManager() in a page where Chart.js and
\* window.chartData may arrive late or never.
InitWait ==
  /\ InitServerIdle
  /\ \E chartJs, chartDataSet \in BOOLEAN, chartData \in ChartDataKeys :
       page = LoadedPage(0, Today, "none", "none", chartJs, chartDataSet, chartData)
  /\ chartManager = NewChartManager

NextWait ==
  \/ DOMContentLoaded
  \/ PollFires
  \/ ChartJsLoads
  \/ ChartDataArrives
  \/ ThemeToggleClick
  \/ ManualTimerFires
  \/ ThemeTimerFires
  \/ \E canvas \in Canvases : CreateTimerFires(canvas)

\* The browser dispatches DOMContentLoaded and lets every pending timer
\* expire.
SpecWait ==
  /\ InitWait
  /\ [][NextWait]_vars
  /\ WF_vars(DOMContentLoaded)
  /\ WF_vars(PollFires)

\* ------------------------------------------------------------ properties
\* The keys one complete run of a script writes.
ScriptKeys(script) ==
  {Key(ScriptDates(script)[d], Representatives[i],
       MetricPrefix(script) \o ScriptMetrics(script)[j].name) :
     d \in 1..Len(ScriptDates(script)), i \in 1..Len(Representatives),
     j \in 1..Len(ScriptMetrics(script))}

\* The (date, representative) buckets a script writes.
ScriptBuckets(script) ==
  {<<ScriptDates(script)[d], Representatives[i]>> :
     d \in 1..Len(ScriptDates(script)), i \in 1..Len(Representatives)}

BucketKeys(script, bucket) ==
  {key \in ScriptKeys(script) :
     key.metric_date = bucket[1] /\ key.representative = bucket[2]}

\* The run went through all its loops (it did not leave by the outer catch).
LoopsDone(run) ==
  /\ run.pc \in {"finally", "exited"}
  /\ run.conn # "none"
  /\ run.d = Len(ScriptDates(run.script))
  /\ run.i = Len(Representatives)
  /\ run.j = Len(ScriptMetrics(run.script))

\* The keys whose INSERT the run executed without an error.
Written(run) == IF LoopsDone(run) THEN ScriptKeys(run.script) \ run.failed ELSE {}

\* The run is over and wrote every metric of every bucket.
CompleteRun(r) ==
  /\ runs[r].pc = "exited"
  /\ LoopsDone(runs[r])
  /\ runs[r].failed = {}

\* Every value the generator can produce for a key.
GeneratedValues(script, key) ==
  {GenerateValue(script, ScriptMetrics(script)[j], key.representative,
                 key.metric_date, k1, k2) :
     j \in {m \in 1..Len(ScriptMetrics(script)) :
              MetricPrefix(script) \o ScriptMetrics(script)[m].name = key.metric_name},
     k1 \in RandomDraws, k2 \in RandomDraws}

\* The rows as the dashboard reads them: without the last-writer bookkeeping.
StoredRows ==
  {[metric_date |-> row.metric_date, representative |-> row.representative,
    metric_name |-> row.metric_name, metric_value |-> row.metric_value,
    metric_type |-> row.metric_type, source |-> row.source] : row \in Rows}

\* The rows of one bucket that carry the given metric name.
Named(bucket, metricName) ==
  {row \in Rows : /\ row.metric_date = bucket[1]
                  /\ row.representative = bucket[2]
                  /\ row.metric_name = metricName}

Buckets == ScriptBuckets("today") \cup ScriptBuckets("sample")

\* C1: whatever runs have written (first runs, re-runs of the same date,
\* overlapping runs, both scripts), no key (metric_date, representative,
\* metric_name) has two rows: every row is stored once and rows with the
\* same key are the same row.
C1_OneRowPerKey ==
  \A row \in Rows :
    /\ CopiesIn(row, daily_metrics) = 1
    /\ \A other \in Rows : KeyOf(other) = KeyOf(row) => other = row

\* A key that a finished run wrote has been written again by another run.
C1_Witness ==
  \E row \in Rows : \E q \in RunIds :
    /\ row.run # q
    /\ runs[q].pc = "exited"
    /\ KeyOf(row) \in Written(runs[q])

\* C2 (as stated): once a complete run of a script is over, the writes of a
\* later run of the same script leave every stored row (key, metric_value,
\* metric_type, source) as it was.
C2_RerunIdentical ==
  [][\A r \in RunIds :
       (/\ runs[r].pc = "loop"
        /\ runs'[r] # runs[r]
        /\ \E q \in RunIds \ {r} :
             CompleteRun(q) /\ runs[q].script = runs[r].script)
       => StoredRows' = StoredRows]_vars

\* C2 (amended): after a complete run and a complete re-run of the same
\* script, every key of the script has exactly one row, with the script's
\* metric_type and source, and its metric_value is one freshly generated
\* value (an overwrite, never the sum of two runs' values).
C2_RerunOverwrites ==
  \A q, r \in RunIds :
    (q # r /\ CompleteRun(q) /\ CompleteRun(r) /\ runs[q].script = runs[r].script)
    => \A key \in ScriptKeys(runs[r].script) :
         /\ Cardinality(RowsOf(daily_metrics, key)) = 1
         /\ \A row \in RowsOf(daily_metrics, key) :
              /\ CopiesIn(row, daily_metrics) = 1
              /\ row.metric_value \in GeneratedValues(runs[r].script, key)
              /\ row.source = ScriptSource(runs[r].script)
              /\ \E j \in 1..Len(ScriptMetrics(runs[r].script)) :
                   /\ MetricPrefix(runs[r].script)
                        \o ScriptMetrics(runs[r].script)[j].name = row.metric_name
                   /\ ScriptMetrics(runs[r].script)[j].type = row.metric_type

\* Two complete runs of the today script, the second one having rewritten
\* every row.
C2_Witness ==
  /\ CompleteRun(1) /\ CompleteRun(2)
  /\ runs[1].script = "today" /\ runs[2].script = "today"
  /\ \A row \in Rows : row.run = 2

\* C3: when a run is over, each bucket has either all of the metrics the
\* run's script writes for it written by the run, or none of them.
C3_BucketAllOrNothing ==
  \A r \in RunIds :
    runs[r].pc = "exited" =>
      \A bucket \in ScriptBuckets(runs[r].script) :
        \/ BucketKeys(runs[r].script, bucket) \cap Written(runs[r]) = {}
        \/ BucketKeys(runs[r].script, bucket) \subseteq Written(runs[r])

\* C4: once two runs of the same script are both over, the rows of each
\* bucket that the script writes were all last written by one and the same run.
C4_BucketFromOneRun ==
  \A q, r \in RunIds :
    (q # r /\ CompleteRun(q) /\ CompleteRun(r) /\ runs[q].script = runs[r].script)
    => \A bucket \in ScriptBuckets(runs[r].script) :
         \A a, b \in Rows :
           (KeyOf(a) \in BucketKeys(runs[r].script, bucket)
            /\ KeyOf(b) \in BucketKeys(runs[r].script, bucket))
           => a.run = b.run

\* C5: a run that ends in total failure (the store could not be reached, or
\* nothing was written) exits with a non-zero code.
C5_TotalFailureExitsNonZero ==
  \A r \in RunIds :
    (runs[r].pc = "exited" /\ (runs[r].conn = "none" \/ Written(runs[r]) = {}))
    => runs[r].exit # 0

\* C6: a run in which a metric-store write failed (and was not made good by
\* a retry) exits with a non-zero code.
C6_FailedWriteExitsNonZero ==
  \A r \in RunIds :
    (runs[r].pc = "exited" /\ runs[r].failed # {}) => runs[r].exit # 0

\* C7: in every bucket the stored conducted count is at most the stored
\* booked count.
C7_ConductedAtMostBooked ==
  \A bucket \in Buckets :
    \A b \in Named(bucket, "calculated_appointments_booked") :
      \A c \in Named(bucket, "calculated_appointments_conducted") :
        c.metric_value <= b.metric_value

Abs(x) == IF x < 0 THEN -x ELSE x

\* C8 (as stated): in every bucket that has the four rows, close_rate is in
\* [0, 100], is 0 when conducted is 0, and otherwise equals
\* (new_clients_closed + organic_clients_closed) / conducted * 100 up to the
\* rounding of the stored value.
C8_CloseRateFormula ==
  \A bucket \in Buckets :
    \A rate \in Named(bucket, "calculated_close_rate") :
      \A c \in Named(bucket, "calculated_appointments_conducted") :
        \A n \in Named(bucket, "master_new_clients_closed") :
          \A o \in Named(bucket, "master_organic_clients_closed") :
            /\ 0 <= rate.metric_value /\ rate.metric_value <= 10000
            /\ c.metric_value = 0 => rate.metric_value = 0
            /\ c.metric_value > 0 =>
                 Abs(rate.metric_value * c.metric_value
                     - 10000 * (n.metric_value + o.metric_value)) <= c.metric_value

\* C8 (amended): every stored close_rate is in [0, 100], for every
\* representative and every draw of the generator.
C8_CloseRateInRange ==
  /\ \A row \in Rows :
       row.metric_name = "calculated_close_rate" =>
         (0 <= row.metric_value /\ row.metric_value <= 10000)
  /\ \A i \in 1..Len(AllRepresentatives) : \A k \in RandomDraws :
       /\ 0 <= Percentage(45, 20, AllRepresentatives[i], k)
       /\ Percentage(45, 20, AllRepresentatives[i], k) <= 10000

\* A close_rate row is stored.
C8_Witness == \E row \in Rows : row.metric_name = "calculated_close_rate"

\* C9 (as stated): in every bucket that has the three rows, show_rate is in
\* [0, 100], is 0 when booked is 0, and otherwise equals conducted / booked
\* * 100 up to the rounding of the stored value.
C9_ShowRateFormula ==
  \A bucket \in Buckets :
    \A rate \in Named(bucket, "calculated_show_rate") :
      \A c \in Named(bucket, "calculated_appointments_conducted") :
        \A b \in Named(bucket, "calculated_appointments_booked") :
          /\ 0 <= rate.metric_value /\ rate.metric_value <= 10000
          /\ b.metric_value = 0 => rate.metric_value = 0
          /\ b.metric_value > 0 =>
               Abs(rate.metric_value * b.metric_value - 10000 * c.metric_value)
                 <= b.metric_value

\* C9 (amended): every stored show_rate is in [0, 100], for every
\* representative and every draw of the generator.
C9_ShowRateInRange ==
  /\ \A row \in Rows :
       row.metric_name = "calculated_show_rate" =>
         (0 <= row.metric_value /\ row.metric_value <= 10000)
  /\ \A i \in 1..Len(AllRepresentatives) : \A k \in RandomDraws :
       /\ 0 <= Percentage(65, 15, AllRepresentatives[i], k)
       /\ Percentage(65, 15, AllRepresentatives[i], k) <= 10000

\* A show_rate row is stored.
C9_Witness == \E row \in Rows : row.metric_name = "calculated_show_rate"

\* C10: in every bucket the stored total_new_clients_closed is the sum of
\* the stored new_clients_closed and organic_clients_closed.
C10_TotalClosedIsSum ==
  \A bucket \in Buckets :
    \A t \in Named(bucket, "master_total_new_clients_closed") :
      \A n \in Named(bucket, "master_new_clients_closed") :
        \A o \in Named(bucket, "master_organic_clients_closed") :
          t.metric_value = n.metric_value + o.metric_value

\* C11: in every bucket the stored total_revenue is the sum of the stored
\* new_client_revenue and rebuy_revenue.
C11_TotalRevenueIsSum ==
  \A bucket \in Buckets :
    \A t \in Named(bucket, "master_total_revenue") :
      \A n \in Named(bucket, "master_new_client_revenue") :
        \A o \in Named(bucket, "master_rebuy_revenue") :
          t.metric_value = n.metric_value + o.metric_value

\* The stored value of a key, 0 when the key has no row.
StoredValue(date, representative, metricName) ==
  LET rows == RowsOf(daily_metrics, Key(date, representative, metricName))
  IN IF rows = {} THEN 0 ELSE (CHOOSE row \in rows : TRUE).metric_value

\* The representatives that have a row of the metric on the date.
RepsWith(date, metricName) ==
  {rep \in {"sierra", "mikaela", "mike"} :
     RowsOf(daily_metrics, Key(date, rep, metricName)) # {}}

\* The per-representative stored values of a metric on a date, added up.
TeamSum(date, metricName) ==
  StoredValue(date, "sierra", metricName)
  + StoredValue(date, "mikaela", metricName)
  + StoredValue(date, "mike", metricName)

\* The step in which the handler runs its totals query.
TotalsQueried == request.pc = "connected" /\ request'.pc = "totals"

\* The team totals the step produced for a metric.
TotalsFor(totalMetrics, cleanName) ==
  {t \in totalMetrics : t.clean_metric_name = cleanName}

\* C12: the team-total average_deal_size is the ratio of team
\* totals and neither the sum nor the average of the per-representative
\* values. The table keeps no number of deals, so the rows decide the last
\* part: when representatives have different average_deal_size values
\* stored for the date, the team total the query returns is neither their
\* sum nor their arithmetic mean.
C12_TeamAverageNotMeanOfAverages ==
  [][TotalsQueried =>
       LET date == request.selectedDate
           name == "calculated_average_deal_size"
           reps == RepsWith(date, name)
           n    == Cardinality(reps)
       IN (\E a, b \in reps : StoredValue(date, a, name) # StoredValue(date, b, name))
          => \A t \in TotalsFor(request'.totalMetrics, "average_deal_size") :
               /\ t.total_value # [hundredths |-> TeamSum(date, name), rest |-> 0]
               /\ ~ (/\ n * t.total_value.hundredths <= TeamSum(date, name)
                     /\ TeamSum(date, name) < n * (t.total_value.hundredths + 1))
    ]_vars

\* C13 (as stated): for a date with stored close_rate rows the team totals
\* hold a close_rate that is recomputed from the team totals: the stored
\* closed counts of the date added up, over the stored conducted counts
\* added up, times 100 (0 when nothing was conducted).
C13_TeamCloseRateFromTotals ==
  [][TotalsQueried =>
       LET date == request.selectedDate
           closed == TeamSum(date, "master_new_clients_closed")
                     + TeamSum(date, "master_organic_clients_closed")
           conducted == TeamSum(date, "calculated_appointments_conducted")
       IN RepsWith(date, "calculated_close_rate") # {}
          => \E t \in TotalsFor(request'.totalMetrics, "close_rate") :
               IF conducted = 0 THEN t.total_value.hundredths = 0
               ELSE Abs(t.total_value.hundredths * conducted - 10000 * closed)
                      <= conducted
    ]_vars

\* C13 (amended): the team totals hold no close_rate at all (nor any other
\* percentage): whatever is stored, they consist of appointments booked,
\* canceled and conducted and average_deal_size only, so no average of the
\* per-representative close_rate percentages is ever shown, and no close_rate
\* recomputed from team totals either.
C13_NoTeamCloseRate ==
  \A t \in request.totalMetrics :
    /\ t.clean_metric_name \in
         {"appointments_booked", "appointments_canceled",
          "appointments_conducted", "average_deal_size"}
    /\ t.metric_type # "percentage"

\* Totals were returned for a date on which two representatives have a
\* close_rate stored.
C13_Witness ==
  /\ request.pc = "totals"
  /\ Cardinality(request.totalMetrics) = 4
  /\ Cardinality(RepsWith(request.selectedDate, "calculated_close_rate")) >= 2

\* C14: for appointments booked, canceled and conducted, the team total the
\* totals query returns for a date is the sum of the per-representative
\* stored values of the metric for that date.
C14_CountTotalsAreSums ==
  [][TotalsQueried =>
       \A name \in {"appointments_booked", "appointments_canceled",
                    "appointments_conducted"} :
         LET date == request.selectedDate
             totals == TotalsFor(request'.totalMetrics, name)
         IN IF RepsWith(date, "calculated_" \o name) = {} THEN totals = {}
            ELSE /\ Cardinality(totals) = 1
                 /\ \A t \in totals :
                      /\ t.total_value.hundredths
                           = TeamSum(date, "calculated_" \o name)
                      /\ t.total_value.rest = 0
                      /\ t.metric_type = "count"
    ]_vars

\* The totals query has just added up the booked counts of two
\* representatives.
C14_Witness ==
  /\ request.pc = "totals"
  /\ \E t \in TotalsFor(request.totalMetrics, "appointments_booked") :
       LET a == StoredValue(request.selectedDate, "sierra", "calculated_appointments_booked")
           b == StoredValue(request.selectedDate, "mikaela", "calculated_appointments_booked")
       IN /\ a > 0 /\ b > 0
          /\ t.total_value.hundredths = a + b

\* C15: a write to a key that already has a row replaces the row in place:
\* in the state after any step the key still has exactly one row, the one of
\* before (same metric_type and source) with the old or the new value, so a
\* reader between any two steps never finds the row missing.
C15_UpsertKeepsRow ==
  [][\A row \in Rows :
       LET after == RowsOf(daily_metrics', KeyOf(row))
       IN /\ Cardinality(after) = 1
          /\ \A new \in after :
               /\ CopiesIn(new, daily_metrics') = 1
               /\ new.metric_type = row.metric_type
               /\ new.source = row.source
    ]_vars

\* A second run of a script is in the middle of rewriting the rows a complete
\* first run of the script stored.
C15_Witness ==
  /\ CompleteRun(1)
  /\ runs[2].pc = "loop" /\ runs[2].script = runs[1].script
  /\ \E row \in Rows : row.run = 2
  /\ \E row \in Rows : row.run = 1

\* C16: the three fetches run independently of each other; the join happens
\* only when all three have returned, timed out or failed; a source that
\* timed out or failed contributes no data (and is reported); a run in which
\* a source delivered goes on to compute and exits 0; and every run ends.
C16_JoinAfterAllFetches ==
  /\ [](job.pc # "fetching" =>
          /\ \A s \in Sources : sources[s].status \in {"ok", "timeout", "error"}
          /\ \A s \in Sources :
               IF sources[s].status = "ok"
                 THEN job.inputs[s] = sources[s].records
                 ELSE job.inputs[s] = 0 /\ s \in job.warnings)
  /\ [](job.pc = "done" =>
          ((\E s \in Sources : sources[s].status = "ok")
             => job.computed /\ job.exit = 0))
  /\ <>(job.pc = "done")

\* A run is over that computed although one source timed out with records
\* half received and another failed, while the third delivered.
C16_Witness ==
  /\ job.pc = "done" /\ job.computed
  /\ \E s \in Sources : sources[s].status = "timeout" /\ sources[s].records > 0
  /\ \E s \in Sources : sources[s].status = "error"
  /\ \E s \in Sources : sources[s].status = "ok" /\ sources[s].records > 0

\* The bucket's appointment reports have been reconciled.
Reconciled == reconciliation.pc \in {"appointments", "metrics"}

\* C17: the conferencing count is the conducted count whenever conferencing
\* data is present for the bucket, the scheduler's completed flags are used
\* only when it is absent, and when both are present and differ the
\* conferencing count wins, a warning is recorded and the bucket still gets
\* its conducted count (and, once calculated, its metrics).
C17_ConferencingWins ==
  Reconciled =>
    LET sched == reconciliation.sched
        conf  == reconciliation.conf
        a     == reconciliation.appointments
    IN /\ conf.present => a.raw_conducted = conf.conducted
       /\ (~conf.present /\ sched.present) => a.raw_conducted = sched.completed
       /\ (~conf.present /\ ~sched.present) => a.raw_conducted = 0
       /\ (conf.present /\ sched.present /\ conf.conducted # sched.completed)
            => /\ "conflicting conducted counts" \in a.warnings
               /\ a.conducted <= conf.conducted
               /\ reconciliation.pc = "metrics" =>
                    reconciliation.metrics.appointments_conducted = a.conducted
       /\ "conflicting conducted counts" \in a.warnings
            => (conf.present /\ sched.present /\ conf.conducted # sched.completed)

\* Conferencing reports 5 conducted, the scheduler has 9 completed of 13
\* booked: the metrics are out, with 5 conducted and the warning.
C17_Witness ==
  /\ reconciliation.pc = "metrics"
  /\ reconciliation.conf.present /\ reconciliation.conf.conducted = 5
  /\ reconciliation.sched.present /\ reconciliation.sched.completed = 9
  /\ reconciliation.sched.booked = 13
  /\ reconciliation.metrics.appointments_conducted = 5
  /\ "conflicting conducted counts" \in reconciliation.appointments.warnings

\* C18: the reconciled conducted count is min(raw conducted, booked): a raw
\* count above booked is clamped to booked with a warning (5 conducted
\* against 4 booked gives 4), any other raw count is kept, without that
\* warning.
C18_ConductedClamped ==
  Reconciled =>
    LET a == reconciliation.appointments
    IN /\ a.raw_conducted > a.booked =>
            /\ a.conducted = a.booked
            /\ "conducted clamped to booked" \in a.warnings
       /\ a.raw_conducted <= a.booked =>
            /\ a.conducted = a.raw_conducted
            /\ "conducted clamped to booked" \notin a.warnings
       /\ (a.raw_conducted = 5 /\ a.booked = 4) => a.conducted = 4

\* Conferencing reports 5 conducted, the scheduler 4 booked: reconciled to 4
\* with the warning.
C18_Witness ==
  /\ Reconciled
  /\ reconciliation.conf.present /\ reconciliation.conf.conducted = 5
  /\ reconciliation.sched.present /\ reconciliation.sched.booked = 4
  /\ reconciliation.appointments.conducted = 4
  /\ "conducted clamped to booked" \in reconciliation.appointments.warnings

\* The position of the last row with the source_id.
LastIndexOf(rows, id) ==
  CHOOSE i \in 1..Len(rows) :
    /\ rows[i].source_id = id
    /\ \A j \in 1..Len(rows) : rows[j].source_id = id => j <= i

\* The source_ids whose last row is of the deal_kind.
IdsOfKind(rows, kind) ==
  {id \in SourceIds :
     /\ \E i \in 1..Len(rows) : rows[i].source_id = id
     /\ rows[LastIndexOf(rows, id)].deal_kind = kind}

RECURSIVE LastAmounts(_, _)
\* The amounts of the last rows of the source_ids, added up.
LastAmounts(rows, ids) ==
  IF ids = {} THEN 0
  ELSE LET id == CHOOSE x \in ids : TRUE
       IN rows[LastIndexOf(rows, id)].amount + LastAmounts(rows, ids \ {id})

\* C19: when the deals of a fetch are summed, each source_id counts once,
\* in the deal_kind group of its last row in row order and with that row's
\* amount: per deal_kind, the count is the number of such source_ids and
\* the revenue is the sum of their last rows' amounts.
C19_DedupLastWins ==
  [][(reconciliation.pc = "deduplicated" /\ reconciliation'.pc = "deals") =>
       LET rows  == reconciliation.rows
           deals == reconciliation'.deals
       IN /\ deals.new_deals = Cardinality(IdsOfKind(rows, "new_client"))
          /\ deals.rebuy_deals = Cardinality(IdsOfKind(rows, "rebuy"))
          /\ deals.new_client_revenue
               = LastAmounts(rows, IdsOfKind(rows, "new_client"))
          /\ deals.rebuy_revenue = LastAmounts(rows, IdsOfKind(rows, "rebuy"))
    ]_vars

\* A fetch holds a source_id twice, first as a new-client deal and last as a
\* rebuy of another amount, and has been deduplicated to fewer rows.
C19_Witness ==
  /\ reconciliation.pc = "deduplicated"
  /\ Len(reconciliation.kept) < Len(reconciliation.rows)
  /\ \E i, j \in 1..Len(reconciliation.rows) :
       /\ i < j
       /\ reconciliation.rows[i].source_id = reconciliation.rows[j].source_id
       /\ reconciliation.rows[i].deal_kind = "new_client"
       /\ reconciliation.rows[j].deal_kind = "rebuy"
       /\ reconciliation.rows[i].amount # reconciliation.rows[j].amount
       /\ IsLastOfItsId(reconciliation.rows, j)

\* A percentage is part / whole x 100, and 0 when the whole is 0.
IsRate(rate, part, whole) ==
  IF whole = 0 THEN rate.num = 0 /\ rate.den > 0
  ELSE rate.den > 0 /\ rate.num * whole = 100 * part * rate.den

\* The bucket of the scenario: booked 13, conducted 9, canceled 2, three
\* new-client deals of 9000 together and one rebuy of 2000.
IsScenario ==
  /\ reconciliation.appointments.booked = 13
  /\ reconciliation.appointments.conducted = 9
  /\ reconciliation.appointments.canceled = 2
  /\ reconciliation.deals.new_deals = 3
  /\ reconciliation.deals.new_client_revenue = 900000
  /\ reconciliation.deals.rebuy_deals = 1
  /\ reconciliation.deals.rebuy_revenue = 200000
  /\ reconciliation.organic = 0

\* C20: each of the twelve metrics is its formula of the metric table
\* applied to the reconciled bucket; for the scenario, close_rate shows as
\* 33.3 %, show_rate as 69.2 %, average_deal_size is 2750.00 and
\* total_revenue 11000.00.
C20_MetricFormulas ==
  reconciliation.pc = "metrics" =>
    LET a == reconciliation.appointments
        d == reconciliation.deals
        organic == reconciliation.organic
        m == reconciliation.metrics
        dealCount == d.new_deals + d.rebuy_deals
    IN /\ m.appointments_booked = a.booked
       /\ m.appointments_canceled = a.canceled
       /\ m.appointments_conducted = a.conducted
       /\ IsRate(m.close_rate, d.new_deals + organic, a.conducted)
       /\ IsRate(m.show_rate, a.conducted, a.booked)
       /\ dealCount = 0 => m.average_deal_size = 0
       /\ dealCount > 0 =>
            2 * Abs(m.average_deal_size * dealCount
                    - (d.new_client_revenue + d.rebuy_revenue)) <= dealCount
       /\ m.new_clients_closed = d.new_deals
       /\ m.organic_clients_closed = organic
       /\ m.total_new_clients_closed = m.new_clients_closed + m.organic_clients_closed
       /\ m.new_client_revenue = d.new_client_revenue
       /\ m.rebuy_revenue = d.rebuy_revenue
       /\ m.total_revenue = m.new_client_revenue + m.rebuy_revenue
       /\ IsScenario =>
            /\ DisplayPercentage(m.close_rate) = 333
            /\ DisplayPercentage(m.show_rate) = 692
            /\ m.average_deal_size = 275000
            /\ m.total_revenue = 1100000

\* The metrics of the scenario's bucket have been calculated.
C20_Witness == reconciliation.pc = "metrics" /\ IsScenario

\* C24: the "Total Average Deal Size" of a date is taken with AVG: it is
\* the arithmetic mean (to six decimals) of the per-representative
\* average_deal_size values stored for the date, one total per date, and it
\* is not their sum once two representatives have a value.
C24_TotalAverageIsMean ==
  [][TotalsQueried =>
       LET date   == request.selectedDate
           name   == "calculated_average_deal_size"
           n      == Cardinality(RepsWith(date, name))
           sum    == TeamSum(date, name)
           totals == TotalsFor(request'.totalMetrics, "average_deal_size")
       IN IF n = 0 THEN totals = {}
          ELSE /\ Cardinality(totals) = 1
               /\ \A t \in totals :
                    LET d == sum - n * t.total_value.hundredths
                    IN /\ -n <= d /\ d <= n
                       /\ 2 * Abs(n * t.total_value.rest - 10000 * d) <= n
                       /\ (n >= 2 /\ sum > 0) =>
                            t.total_value # [hundredths |-> sum, rest |-> 0]
    ]_vars

\* The totals query has just averaged the different average deal sizes of
\* two representatives.
C24_Witness ==
  /\ request.pc = "totals"
  /\ \E t \in TotalsFor(request.totalMetrics, "average_deal_size") :
       LET a == StoredValue(request.selectedDate, "sierra", "calculated_average_deal_size")
           b == StoredValue(request.selectedDate, "mikaela", "calculated_average_deal_size")
       IN /\ a > 0 /\ b > 0 /\ a # b
          /\ 2 * t.total_value.hundredths = a + b
          /\ t.total_value.rest = 0

\* C29: every database connection a script run or a dashboard request has
\* opened is closed when the run has exited or the request has been
\* answered, also after a failing query.
C29_ConnectionsClosed ==
  /\ request.pc = "done" => request.conn # "open"
  /\ \A r \in RunIds : runs[r].pc = "exited" => runs[r].conn # "open"

\* The metric names that begin with 'calculated_'.
CalculatedNames == {"calculated_" \o name : name \in KnownMetricNames}

\* C25: without --cleanup no step of the verification script changes a row
\* of daily_metrics; with --cleanup only its DELETE does, and it removes
\* exactly the rows whose metric_name begins with 'calculated_': every
\* master_ row and every other row is still there, unchanged, and no
\* calculated row is.
C25_CleanupDeletesCalculatedOnly ==
  [][verification' # verification =>
       IF verification.pc = "delete" /\ verification'.pc = "finally"
            /\ daily_metrics' # daily_metrics
         THEN /\ verification.cleanup
              /\ BagToSet(daily_metrics') \subseteq Rows
              /\ \A row \in Rows :
                   IF row.metric_name \in CalculatedNames
                     THEN ~BagIn(row, daily_metrics')
                     ELSE CopiesIn(row, daily_metrics') = CopiesIn(row, daily_metrics)
         ELSE daily_metrics' = daily_metrics
    ]_vars

\* A --cleanup run has counted calculated rows and deleted them: the master
\* row from before is still stored and no calculated row is.
C25_Witness ==
  /\ verification.pc = "finally"
  /\ verification.cleanup
  /\ verification.countToDelete > 1
  /\ LegacyRow("master_new_clients_closed", 200) \in Rows
  /\ \A row \in Rows : row.metric_name \notin CalculatedNames

\* A step in which a script run executes its INSERT.
Upserts(r) == runs[r].pc = "loop" /\ runs'[r] # runs[r]

\* C26: an upsert on a key that already has a row overwrites the row with
\* all supplied fields: afterwards the key's one row has the supplied
\* metric_type and source and a value the script generates, and no other
\* row of the table has changed.
C26_UpsertOverwritesAllFields ==
  [][\A r \in RunIds :
       (Upserts(r) /\ RowsOf(daily_metrics, CurrentKey(runs[r])) # {}) =>
         LET run == runs[r]
             key == CurrentKey(run)
         IN /\ Cardinality(RowsOf(daily_metrics', key)) = 1
            /\ \A row \in RowsOf(daily_metrics', key) :
                 /\ CopiesIn(row, daily_metrics') = 1
                 /\ row.metric_type = ScriptMetrics(run.script)[run.j].type
                 /\ row.source = ScriptSource(run.script)
            /\ \A row \in Rows \cup BagToSet(daily_metrics') :
                 KeyOf(row) # key =>
                   CopiesIn(row, daily_metrics') = CopiesIn(row, daily_metrics)
    ]_vars

\* The step in which the handler runs its chart query.
ChartsQueried == view.pc = "reps" /\ view'.pc = "charts"

\* C23: each of the three charts (Appointments Booked, Appointments
\* Conducted, Average Deal Size) gets the per-representative values of its
\* metric whenever rows of that metric are stored for the selected date.
C23_ThreeChartsPopulated ==
  [][ChartsQueried =>
       LET date      == view.selectedDate
           processed == ProcessMetricsForCharts(view'.chartData)
       IN \A n \in 1..Len(ChartMetricNames) :
            LET name == ChartMetricNames[n]
                reps == RepsWith(date, "calculated_" \o name)
            IN reps # {} =>
                 /\ name \in DOMAIN processed
                 /\ DOMAIN processed[name].representatives = reps
                 /\ \A rep \in reps :
                      processed[name].representatives[rep]
                        = StoredValue(date, rep, "calculated_" \o name)
    ]_vars

\* The six sales metrics, without their prefix.
SalesMetricNames == {metricNames[j].name : j \in 1..Len(metricNames)}

C21_ArrowsStepOneDay ==
  [][/\ (page'.pc = "loading" /\ page'.arrow = "left")
          => page'.selectedDate = page.selectedDate - 1
     /\ (page'.pc = "loading" /\ page'.arrow = "right")
          => page'.selectedDate = page.selectedDate + 1]_vars

\* C22: every click on the theme toggle flips data-theme between light and
\* dark and saves it, and once a theme is saved a loaded page's data-theme
\* is the saved theme, after any clicks and reloads.
C22_ThemeSaved ==
  /\ [](page.pc = "ready" /\ page.localStorage # "none"
          => page.dataTheme = page.localStorage)
  /\ [][(page.pc = "ready" /\ page'.pc = "ready"
           /\ page'.clicks = page.clicks + 1)
          => /\ page'.dataTheme \in {"light", "dark"}
             /\ page'.dataTheme # page.dataTheme
             /\ page'.localStorage = page'.dataTheme]_vars

\* A reloaded page shows the dark theme saved by an earlier load.
C22_Witness ==
  /\ page.pc = "ready"
  /\ page.clicks = 0
  /\ page.localStorage = "dark"
  /\ page.dataTheme = "dark"

\* Initialization is over and no timer is pending.
TimersFired ==
  /\ page.pc = "ready"
  /\ page.timers = NoTimers
  /\ chartManager.pc \in {"initialized", "failed"}

\* C27: once every timer has fired, every live chart is the one the charts
\* map holds for its canvas (so a canvas has at most one), and it was built
\* with the page's final data-theme.
C27_OneChartInFinalTheme ==
  TimersFired =>
    \A i \in 1..Len(page.instances) :
      page.instances[i].live =>
        /\ chartManager.charts[page.instances[i].canvas] = i
        /\ page.instances[i].dark = (page.dataTheme = "dark")

\* C28: waitForDependencies ends, after at most 50 polls for Chart.js and 30
\* for the chart data; it resolves only with both available and rejects
\* with one missing; isInitialized is true only after the resolve and
\* initializeCharts; after a reject it stays false and the global error
\* shows.
C28_WaitTerminates ==
  /\ <>(chartManager.pc \in {"initialized", "failed"})
  /\ [](/\ chartManager.pc = "waitChart" => chartManager.attempts < ChartPolls
        /\ chartManager.pc = "waitData" => chartManager.attempts < DataPolls
        /\ chartManager.attempts <= ChartPolls
        /\ chartManager.isInitialized <=> chartManager.pc = "initialized"
        /\ chartManager.pc = "failed" => chartManager.globalError)
  /\ [][/\ (chartManager.pc # "initialized" /\ chartManager'.pc = "initialized")
             => page.chartJs /\ page.chartDataSet
        /\ (chartManager.pc # "failed" /\ chartManager'.pc = "failed")
             => ~(page.chartJs /\ page.chartDataSet)
        /\ chartManager.pc = "failed" => chartManager'.pc = "failed"]_vars

\* Chart.js is there, the chart data never came: rejected after 30 polls.
C28_Witness ==
  /\ chartManager.pc = "failed"
  /\ page.chartJs
  /\ ~page.chartDataSet
  /\ chartManager.attempts = DataPolls
  /\ chartManager.globalError
  /\ ~chartManager.isInitialized
====
